---- MODULE Spec2Model ----
(***************************************************************************)
(* Model of the trie node cache (Database) of ipld-eth-statedb: the dirty  *)
(* map with its reference counts and flush list, the clean cache, the      *)
(* persistent store, and the operations insert, Node, Reference,           *)
(* Dereference and Update.                                                 *)
(*                                                                         *)
(* Hashes are sequences of integers: a hash is the identity of a node's    *)
(* content (content addressing, collision free).  <<>> is common.Hash{}.   *)
(***************************************************************************)
EXTENDS Integers, Sequences, FiniteSets, TLC

(***************************************************************************)
(* Bounds of the model.                                                    *)
(***************************************************************************)
\* number of node hashes of the node universe that Update may ingest
NumNodes == 6
\* cap on the number of references any one node may carry
MaxRefs == 2

(***************************************************************************)
(* Program constants.                                                      *)
(***************************************************************************)
HashLength == 32
cachedNodeChildrenSize == 48
Uint16 == 65536

ZeroHash == <<>>
EmptyRootHash == <<0>>

(***************************************************************************)
(* Small helpers on finite maps.                                           *)
(***************************************************************************)
MapRemove(m, k) == [x \in (DOMAIN m) \ {k} |-> m[x]]

MapPut(m, k, v) == [x \in (DOMAIN m) \cup {k} |-> IF x = k THEN v ELSE m[x]]

EmptyMap == [x \in {} |-> 0]

Occurrences(s, x) == Cardinality({i \in DOMAIN s : s[i] = x})

(***************************************************************************)
(* The node universe.  Node i has hash <<i>>; its content fixes its        *)
(* structural children (hash references inside the node), its encoded      *)
(* size, the trie (owner) it belongs to and, for an account-trie node that *)
(* holds an account leaf, the storage root of that account.                *)
(*   1  storage-trie node of account X                                     *)
(*   2  storage root of account X            -> 1                          *)
(*   3  account-trie node, leaf of X (storage root 2)                      *)
(*   4  account-trie node, leaf of X' (storage root 2)                     *)
(*   5  account root                         -> 3                          *)
(*   6  account root                         -> 3, 4                       *)
(*   7.. further account-trie nodes without children                       *)
(***************************************************************************)
Hsh(i) == <<i>>

NodeHashes == {Hsh(i) : i \in 1..NumNodes}

\* a one-node account trie whose only account has an all-zero storage root
ZeroRootLeaf == <<50>>

nodeChilds(h) ==
    CASE h = Hsh(2) -> <<Hsh(1)>>
      [] h = Hsh(5) -> <<Hsh(3)>>
      [] h = Hsh(6) -> <<Hsh(3), Hsh(4)>>
      [] OTHER -> <<>>

nodeOwner(h) == IF h \in {Hsh(1), Hsh(2)} THEN <<100>> ELSE ZeroHash

\* the storage root of the account whose leaf node h holds
leafRoot(h) ==
    CASE h = Hsh(3) -> Hsh(2)
      [] h = Hsh(4) -> Hsh(2)
      [] h = ZeroRootLeaf -> ZeroHash
      [] OTHER -> EmptyRootHash

holdsLeaf(h) == h \in {Hsh(3), Hsh(4), ZeroRootLeaf}

\* the collapsed node stored in a cachedNode: its hash references and blob
simplifyNode(h) == [childs |-> nodeChilds(h), blob |-> h]

NilNode == [childs |-> <<>>, blob |-> <<>>]


VARIABLES
    dirties,        \* Database.dirties: hash -> cachedNode
    oldest,         \* Database.oldest
    newest,         \* Database.newest
    dirtiesSize,    \* Database.dirtiesSize
    childrenSize,   \* Database.childrenSize
    diskdb,         \* Database.diskdb: content identifier -> bytes
    cleans,         \* Database.cleans: [on, m], m: hash -> bytes (on: not nil)
    lock,           \* Database.lock: [w, r], the writer and the readers holding it
    th,             \* the call each goroutine is in, and where in it
    calls,          \* the number of mutating calls made so far
    trie,           \* the trie handle the caller holds
    kv,             \* the key-value pairs set through the handle and its ancestors
    roots,          \* committed root -> the key-value pairs of the trie under it
    collected,      \* a Dereference has run
    panicked,       \* a run-time panic (nil dereference) has happened
    lastOp          \* the last call, with the dirty map it was made on

vars == <<dirties, oldest, newest, dirtiesSize, childrenSize, diskdb, cleans,
          lock, th, calls, trie, kv, roots, collected, panicked, lastOp>>

\* the fields of the Database that the dirty-map operations write
dbVars == <<dirties, oldest, newest, dirtiesSize, childrenSize, panicked>>

\* the variables that the dirty-map operations and the store leave alone
lockVars == <<lock, th, calls>>

trieVars == <<trie, kv, roots, collected>>

auxVars == <<cleans, lockVars, trieVars>>

(***************************************************************************)
(* The database as a value: the fields the operations read and write.      *)
(***************************************************************************)
DB == [dirties |-> dirties, oldest |-> oldest, newest |-> newest,
       dirtiesSize |-> dirtiesSize, childrenSize |-> childrenSize,
       panic |-> panicked]

Panic(db) == [db EXCEPT !.panic = TRUE]

\* NewDatabaseWithConfig: the dirty map holds the meta-root only
NewDatabaseWithConfig ==
    [dirties |-> (ZeroHash :> [node |-> NilNode, size |-> 0, parents |-> 0,
                               children |-> EmptyMap, childrenNil |-> FALSE,
                               flushPrev |-> ZeroHash, flushNext |-> ZeroHash]),
     oldest |-> ZeroHash, newest |-> ZeroHash,
     dirtiesSize |-> 0, childrenSize |-> 0, panic |-> FALSE]

\* cachedNode.forChilds on a node without external children yet: the hash
\* references inside the node
forGatherChildren(node) == node.childs

(***************************************************************************)
(* Database.insert                                                         *)
(***************************************************************************)
insert(db, hash, size, node) ==
    IF db.panic THEN db
    ELSE IF hash \in DOMAIN db.dirties THEN db
    ELSE
      LET entry == [node |-> node, size |-> size % Uint16, parents |-> 0,
                    children |-> EmptyMap, childrenNil |-> TRUE,
                    flushPrev |-> db.newest, flushNext |-> ZeroHash]
          chs == forGatherChildren(node)
          d1 == [h \in DOMAIN db.dirties |->
                   [db.dirties[h] EXCEPT !.parents = @ + Occurrences(chs, h)]]
          d2 == MapPut(d1, hash, entry)
          added == (HashLength + entry.size) % Uint16
      IN IF db.oldest = ZeroHash
         THEN [db EXCEPT !.dirties = d2, !.oldest = hash, !.newest = hash,
                         !.dirtiesSize = @ + added]
         ELSE IF db.newest \notin DOMAIN d2 THEN Panic(db)
         ELSE [db EXCEPT !.dirties = [d2 EXCEPT ![db.newest].flushNext = hash],
                         !.newest = hash,
                         !.dirtiesSize = @ + added]

(***************************************************************************)
(* Database.reference                                                      *)
(***************************************************************************)
\* line 225: the parent count of the child after the reference
refParents_NotCounted(parents) == parents

refParents(parents) == parents + 1

reference(db, child, parent) ==
    IF db.panic THEN db
    ELSE IF child \notin DOMAIN db.dirties THEN db
    ELSE IF parent \notin DOMAIN db.dirties THEN Panic(db)
    ELSE
      LET p == db.dirties[parent]
          wasNil == p.childrenNil
          cs1 == IF wasNil THEN db.childrenSize + cachedNodeChildrenSize
                 ELSE db.childrenSize
          d0 == [db.dirties EXCEPT ![parent].childrenNil = FALSE]
      IN IF ~wasNil /\ child \in DOMAIN p.children /\ parent # ZeroHash
         THEN db
         ELSE
           LET d1 == [d0 EXCEPT ![child].parents = refParents(@)]
               old == IF child \in DOMAIN d1[parent].children
                      THEN d1[parent].children[child] ELSE 0
               d2 == [d1 EXCEPT ![parent].children = MapPut(@, child, old + 1)]
           IN [db EXCEPT !.dirties = d2,
                         !.childrenSize = IF old + 1 = 1
                                          THEN cs1 + HashLength + 2 ELSE cs1]

(***************************************************************************)
(* Database.dereference, one call frame step at a time.  A run of          *)
(* dereference is a database value extended with the call stack and with   *)
(* the cachedNodes already deleted from the dirty map (a frame keeps its   *)
(* pointer to the node after a nested call has deleted the map entry).     *)
(* A frame is [child, parent, pc, seen, idx]: pc "enter" is the body up to *)
(* the flush-list removal, pc "childs" is the forChilds loop, seen are the *)
(* external children the range loop has produced, idx the next hash        *)
(* reference inside the node.                                              *)
(***************************************************************************)
Frame(child, parent) ==
    [child |-> child, parent |-> parent, pc |-> "enter", seen |-> {}, idx |-> 1]

Pop(c) == [c EXCEPT !.stack = SubSeq(@, 1, Len(@) - 1)]

Top(c) == c.stack[Len(c.stack)]

\* lines 283-294: unlink the node from the flush list
flushRemove(c, child) ==
    LET d == c.dirties
        node == d[child]
    IN IF child = c.oldest
       THEN IF node.flushNext \notin DOMAIN d THEN Panic(c)
            ELSE [c EXCEPT !.oldest = node.flushNext,
                           !.dirties[node.flushNext].flushPrev = ZeroHash]
       ELSE IF child = c.newest
       THEN IF node.flushPrev \notin DOMAIN d THEN Panic(c)
            ELSE [c EXCEPT !.newest = node.flushPrev,
                           !.dirties[node.flushPrev].flushNext = ZeroHash]
       ELSE IF node.flushPrev \notin DOMAIN d \/ node.flushNext \notin DOMAIN d
            THEN Panic(c)
            ELSE LET d1 == [d EXCEPT ![node.flushPrev].flushNext = node.flushNext]
                 IN [c EXCEPT !.dirties =
                        [d1 EXCEPT ![node.flushNext].flushPrev = node.flushPrev]]

\* lines 275-281: the parent count after the dereference
derefParents_KeepsZero(parents) == 0

\* a dereference that takes two references away
derefParents_Twice(parents) == IF parents > 1 THEN parents - 2 ELSE 0

derefParents(parents) == IF parents > 0 THEN parents - 1 ELSE 0

\* lines 259-294
derefEnter(c) ==
    LET f == Top(c)
        d == c.dirties
    IN IF f.parent \notin DOMAIN d THEN Panic(c)
       ELSE
        LET p == d[f.parent]
            dec == ~p.childrenNil /\ f.child \in DOMAIN p.children
                   /\ p.children[f.child] > 0
            gone == dec /\ p.children[f.child] = 1
            d1 == IF ~dec THEN d
                  ELSE IF gone
                  THEN [d EXCEPT ![f.parent].children = MapRemove(@, f.child)]
                  ELSE [d EXCEPT ![f.parent].children[f.child] = @ - 1]
            c1 == [c EXCEPT !.dirties = d1,
                            !.childrenSize = IF gone THEN @ - (HashLength + 2)
                                             ELSE @]
        IN IF f.child \notin DOMAIN d1 THEN Pop(c1)
           ELSE
            LET par == derefParents(d1[f.child].parents)
                c2 == [c1 EXCEPT !.dirties[f.child].parents = par]
            IN IF par # 0 THEN Pop(c2)
               ELSE LET c3 == flushRemove(c2, f.child)
                    IN IF c3.panic THEN c3
                       ELSE [c3 EXCEPT !.stack[Len(c.stack)].pc = "childs"]

\* the cachedNode a frame points to: in the dirty map, or deleted from it

\* lines 295-304: the forChilds loop (external children in map order, then
\* the hash references inside the node), then the deletion of the node
derefChilds(c) ==
    LET f == Top(c)
        n == Len(c.stack)
        node == IF f.child \in DOMAIN c.dirties THEN c.dirties[f.child]
                ELSE c.dead[f.child]
        ext == (DOMAIN node.children) \ f.seen
        chs == forGatherChildren(node.node)
    IN IF ext # {}
       THEN {[c EXCEPT !.stack = Append([@ EXCEPT ![n].seen = @ \cup {h}],
                                        Frame(h, f.child))] : h \in ext}
       ELSE IF f.idx <= Len(chs)
       THEN {[c EXCEPT !.stack = Append([@ EXCEPT ![n].idx = @ + 1],
                                        Frame(chs[f.idx], f.child))]}
       ELSE {Pop([c EXCEPT
                    !.dirties = MapRemove(@, f.child),
                    !.dead = MapPut(@, f.child, node),
                    !.dirtiesSize = @ - (HashLength + node.size),
                    !.childrenSize = IF node.childrenNil THEN @
                                     ELSE @ - cachedNodeChildrenSize])}

\* the successors of a run that has not ended
derefSteps(c) ==
    IF Top(c).pc = "enter" THEN {derefEnter(c)} ELSE derefChilds(c)

\* every way a run can end
RECURSIVE derefRun(_)
derefRun(c) ==
    IF c.panic \/ c.stack = <<>> THEN {c}
    ELSE UNION {derefRun(c1) : c1 \in derefSteps(c)}

derefEnd(c) ==
    [dirties |-> c.dirties, oldest |-> c.oldest, newest |-> c.newest,
     dirtiesSize |-> c.dirtiesSize, childrenSize |-> c.childrenSize,
     panic |-> c.panic]

\* Database.dereference run to its end: the databases it can leave
dereference(db, child, parent) ==
    IF db.panic THEN {db}
    ELSE LET start == [dirties |-> db.dirties, oldest |-> db.oldest,
                       newest |-> db.newest, dirtiesSize |-> db.dirtiesSize,
                       childrenSize |-> db.childrenSize, panic |-> db.panic,
                       stack |-> <<Frame(child, parent)>>, dead |-> EmptyMap]
         IN {derefEnd(c) : c \in derefRun(start)}

\* Database.Dereference (lines 233-255) without its metrics
Dereference(db, root) ==
    IF root = ZeroHash THEN {db} ELSE dereference(db, root, ZeroHash)

(***************************************************************************)
(* Content identifiers: internal.Keccak256ToCid.  multihash.Encode puts    *)
(* the KECCAK-256 function code and the digest length in front of the      *)
(* digest; cid.NewCidV1 puts the version and the codec in front of that.   *)
(***************************************************************************)
KECCAK_256 == 27

MEthStateTrie == 150

MEthStorageTrie == 152

RawBinary == 85

\* the unsigned varint of n, as multihash.Encode and cid.NewCidV1 write
\* their integer fields: seven bits a byte, low bits first, the high bit
\* set on every byte but the last
RECURSIVE uvarint(_)
uvarint(n) ==
    IF n < 128 THEN <<n>> ELSE <<128 + (n % 128)>> \o uvarint(n \div 128)

\* an identifier that leaves the codec out
Keccak256ToCid_NoCodec(codec, h) ==
    uvarint(1) \o uvarint(KECCAK_256) \o uvarint(Len(h)) \o h

Keccak256ToCid(codec, h) ==
    uvarint(1) \o uvarint(codec) \o uvarint(KECCAK_256) \o uvarint(Len(h)) \o h

\* the codec of the trie a node of the universe belongs to
nodeCodec(h) == IF nodeOwner(h) = ZeroHash THEN MEthStateTrie ELSE MEthStorageTrie

(***************************************************************************)
(* MergedNodeSet: sets maps an owner to a NodeSet [nodes, leaves]; nodes   *)
(* is the sequence forEachWithOrder produces (children before parents), a  *)
(* memoryNode is [hash, size, node], deleted when its hash is zero; a leaf *)
(* is [blob, parent], blob the encoded account [ok, Root] (ok: it decodes).*)
(***************************************************************************)
isDeleted(n) == n.hash = ZeroHash

\* rlp.DecodeBytes(blob, &account)
DecodeAccount(blob) == [err |-> ~blob.ok, Root |-> blob.Root]

RECURSIVE Perms(_)
Perms(S) ==
    IF S = {} THEN {<<>>}
    ELSE UNION {{<<x>> \o p : p \in Perms(S \ {x})} : x \in S}

\* an insertion that replaces the entry of a node that is already cached
RECURSIVE insertNodes_Overwrite(_, _)
insertNodes_Overwrite(db, ns) ==
    IF ns = <<>> THEN db
    ELSE LET n == Head(ns)
         IN insertNodes_Overwrite(
               IF isDeleted(n) THEN db
               ELSE insert([db EXCEPT !.dirties = MapRemove(@, n.hash)],
                           n.hash, n.size, n.node),
               Tail(ns))

\* lines 329-337: insert the non-deleted nodes of one NodeSet, in order
RECURSIVE insertNodes(_, _)
insertNodes(db, ns) ==
    IF ns = <<>> THEN db
    ELSE LET n == Head(ns)
         IN insertNodes(IF isDeleted(n) THEN db
                        ELSE insert(db, n.hash, n.size, n.node),
                        Tail(ns))

RECURSIVE insertSets(_, _, _)
insertSets(db, nodes, order) ==
    IF order = <<>> THEN db
    ELSE insertSets(insertNodes(db, nodes.sets[Head(order)].nodes),
                    nodes, Tail(order))

\* lines 340-350: link the storage roots of the account leaves
RECURSIVE linkLeaves(_, _)
linkLeaves(db, leaves) ==
    IF leaves = <<>> THEN [db |-> db, err |-> FALSE]
    ELSE LET n == Head(leaves)
             account == DecodeAccount(n.blob)
         IN IF account.err THEN [db |-> db, err |-> TRUE]
            ELSE linkLeaves(IF account.Root # EmptyRootHash
                            THEN reference(db, account.Root, n.parent)
                            ELSE db,
                            Tail(leaves))

\* the account set first, then the storage sets
UpdateOrders_AccountFirst(nodes) ==
    {(IF ZeroHash \in DOMAIN nodes.sets THEN <<ZeroHash>> ELSE <<>>) \o p :
        p \in Perms((DOMAIN nodes.sets) \ {ZeroHash})}

\* lines 319-328: the storage sets in map order, then the account set
UpdateOrders(nodes) ==
    {p \o (IF ZeroHash \in DOMAIN nodes.sets THEN <<ZeroHash>> ELSE <<>>) :
        p \in Perms((DOMAIN nodes.sets) \ {ZeroHash})}

\* Database.Update: the results [db, err] it can have
Update(db, nodes) ==
    {LET db1 == insertSets(db, nodes, order)
     IN IF ZeroHash \in DOMAIN nodes.sets
        THEN linkLeaves(db1, nodes.sets[ZeroHash].leaves)
        ELSE [db |-> db1, err |-> FALSE] : order \in UpdateOrders(nodes)}

(***************************************************************************)
(* The MergedNodeSets a Commit can hand over: the nodes S of the universe  *)
(* that the commit created, grouped by owner, each group in the order of   *)
(* forEachWithOrder, with the leaves of the account-trie nodes of S.       *)
(***************************************************************************)
RECURSIVE SortHashes(_)
SortHashes(S) ==
    IF S = {} THEN <<>>
    ELSE LET m == CHOOSE x \in S : \A y \in S : x[1] <= y[1]
         IN <<m>> \o SortHashes(S \ {m})

\* S: the nodes created, del: a deleted entry is part of the account set,
\* bad: the leaf nodes whose account blob does not decode
MergedNodeSetOf(S, del, bad) ==
    LET owners == {nodeOwner(h) : h \in S} \cup (IF del THEN {ZeroHash} ELSE {})
        nodesOf(o) == SortHashes({h \in S : nodeOwner(h) = o})
        leafSeq(o) == IF o = ZeroHash
                      THEN SortHashes({h \in S : nodeOwner(h) = o /\ holdsLeaf(h)})
                      ELSE <<>>
    IN [sets |-> [o \in owners |->
          [nodes |-> (IF del /\ o = ZeroHash
                      THEN <<[hash |-> ZeroHash, size |-> 0, node |-> NilNode]>>
                      ELSE <<>>)
                     \o [i \in 1..Len(nodesOf(o)) |->
                           [hash |-> nodesOf(o)[i], size |-> 100 + nodesOf(o)[i][1],
                            node |-> simplifyNode(nodesOf(o)[i])]],
           leaves |-> [i \in 1..Len(leafSeq(o)) |->
                         [blob |-> [ok |-> leafSeq(o)[i] \notin bad,
                                    Root |-> leafRoot(leafSeq(o)[i])],
                          parent |-> leafSeq(o)[i]]]]]]

\* the hashes that are roots of account tries
isRoot(h) == h[1] >= 5

Roots == {h \in NodeHashes : isRoot(h)}

\* the nodes node h refers to: by a hash inside it, or as the storage root
\* of the account leaf it holds
refsOf(h) ==
    {nodeChilds(h)[i] : i \in DOMAIN nodeChilds(h)}
        \cup (IF holdsLeaf(h) THEN {leafRoot(h)} \ {EmptyRootHash, ZeroHash} ELSE {})

RECURSIVE ReachIn(_, _)
ReachIn(from, S) ==
    LET more == {c \in S : \E h \in from : c \in refsOf(h)} \ from
    IN IF more = {} THEN from ELSE ReachIn(from \cup more, S)

\* S is what a Commit of the tries read from this database can have
\* created: the new account root, the new nodes below it (each reached
\* from the root through new nodes), and every node a new node refers to
\* is new or available
CommitSet(S) ==
    /\ \E r \in S : isRoot(r) /\ ReachIn({r}, S) = S
    /\ \A h \in S : \A c \in refsOf(h) :
          \/ c \in S
          \/ c \in DOMAIN dirties
          \/ Keccak256ToCid(nodeCodec(c), c) \in DOMAIN diskdb

metaRefs(d, h) ==
    IF ZeroHash \in DOMAIN d /\ h \in DOMAIN d[ZeroHash].children
    THEN d[ZeroHash].children[h] ELSE 0

(***************************************************************************)
(* The reference graph of a dirty map d.                                   *)
(***************************************************************************)
\* the dirty nodes other than the meta-root
dirtyNodes(d) == (DOMAIN d) \ {ZeroHash}

\* the roots the meta-root retains
Retained(d) == {h \in dirtyNodes(d) : metaRefs(d, h) > 0}

\* the number of references dirty node p holds to h
refCount(d, p, h) ==
    Occurrences(forGatherChildren(d[p].node), h)
        + (IF h \in DOMAIN d[p].children THEN d[p].children[h] ELSE 0)

RECURSIVE SumRefs(_, _, _)
SumRefs(d, P, h) ==
    IF P = {} THEN 0
    ELSE LET p == CHOOSE x \in P : TRUE
         IN refCount(d, p, h) + SumRefs(d, P \ {p}, h)

\* every parent count is the number of references dirty nodes hold
CountsExact(d) ==
    \A h \in dirtyNodes(d) : d[h].parents = SumRefs(d, DOMAIN d, h)

RECURSIVE ReachD(_, _)
ReachD(d, from) ==
    LET more == {c \in dirtyNodes(d) :
                    \E p \in from : p \in DOMAIN d /\ refCount(d, p, c) > 0} \ from
    IN IF more = {} THEN from ELSE ReachD(d, from \cup more)

\* every dirty node belongs to a trie whose root is anchored
AllAnchored(d) == dirtyNodes(d) \subseteq ReachD(d, Retained(d))

(***************************************************************************)
(* Actions.                                                                *)
(***************************************************************************)
SetDB(db) ==
    /\ dirties' = db.dirties
    /\ oldest' = db.oldest
    /\ newest' = db.newest
    /\ dirtiesSize' = db.dirtiesSize
    /\ childrenSize' = db.childrenSize
    /\ panicked' = db.panic

\* the goroutines that call the database
Procs == 1..3

NoProc == 0

Idle == [op |-> "idle", at |-> "idle"]

\* the zero value of sync.RWMutex, no call in progress
InitLock ==
    /\ lock = [w |-> NoProc, r |-> {}]
    /\ th = [t \in Procs |-> Idle]
    /\ calls = 0

\* no trie is open, nothing is committed
InitTrie ==
    /\ trie = [state |-> "none", root |-> [t |-> "nil"], owner |-> ZeroHash,
               codec |-> 0, base |-> ZeroHash]
    /\ kv = EmptyMap
    /\ roots = EmptyMap
    /\ collected = FALSE

Init ==
    /\ dirties = NewDatabaseWithConfig.dirties
    /\ oldest = NewDatabaseWithConfig.oldest
    /\ newest = NewDatabaseWithConfig.newest
    /\ dirtiesSize = NewDatabaseWithConfig.dirtiesSize
    /\ childrenSize = NewDatabaseWithConfig.childrenSize
    /\ panicked = NewDatabaseWithConfig.panic
    /\ diskdb = EmptyMap
    /\ cleans = [on |-> FALSE, m |-> EmptyMap]
    /\ InitLock
    /\ InitTrie
    /\ lastOp = [op |-> "new"]

\* db.Update(nodes) with the NodeSet of a Commit
DoUpdate ==
    /\ ~panicked
    /\ \E S \in {T \in SUBSET NodeHashes : CommitSet(T)}, del \in BOOLEAN :
         /\ \E r \in Update(DB, MergedNodeSetOf(S, del, {})) :
              /\ SetDB(r.db)
              /\ lastOp' = [op |-> "Update", err |-> r.err]
    /\ UNCHANGED <<diskdb, auxVars>>

\* db.Reference(root, common.Hash{}): anchor a root at the meta-root
DoAnchor ==
    /\ ~panicked
    /\ \E root \in Roots :
         /\ metaRefs(dirties, root) < MaxRefs
         /\ SetDB(reference(DB, root, ZeroHash))
         /\ lastOp' = [op |-> "Reference", child |-> root, parent |-> ZeroHash]
    /\ UNCHANGED <<diskdb, auxVars>>

\* db.Dereference(root) of an anchored root
DoDereference ==
    /\ ~panicked
    /\ \E root \in Roots :
         /\ metaRefs(dirties, root) > 0
         /\ \E db \in Dereference(DB, root) : SetDB(db)
         /\ lastOp' = [op |-> "Dereference", root |-> root, before |-> dirties]
    /\ UNCHANGED <<diskdb, auxVars>>

\* the ingestion pipeline writes a node of the universe to the store
StoreWrite ==
    /\ ~panicked
    /\ \E h \in {Hsh(3)} :
         /\ Keccak256ToCid(nodeCodec(h), h) \notin DOMAIN diskdb
         /\ diskdb' = MapPut(diskdb, Keccak256ToCid(nodeCodec(h), h),
                             simplifyNode(h).blob)
    /\ lastOp' = [op |-> "StoreWrite"]
    /\ UNCHANGED <<dbVars, auxVars>>

Next == DoUpdate \/ DoAnchor \/ DoDereference \/ StoreWrite

Spec == Init /\ [][Next]_vars

(***************************************************************************)
(* The database under arbitrary calls of its exported methods: Update with *)
(* any leaf blobs (among them blobs that do not decode and an account      *)
(* whose storage root is all-zero), Reference and Dereference with any     *)
(* hashes.  Update ingests whole tries here.                               *)
(***************************************************************************)
\* the whole trie below root r
TrieOf(r) == ReachIn({r}, NodeHashes \cup {ZeroRootLeaf})

ApiUpdate ==
    /\ ~panicked
    /\ \E root \in {Hsh(5), ZeroRootLeaf} :
        \E bad \in SUBSET {h \in TrieOf(root) : holdsLeaf(h)} :
         \E r \in Update(DB, MergedNodeSetOf(TrieOf(root), FALSE, bad)) :
              /\ SetDB(r.db)
              /\ lastOp' = [op |-> "Update", err |-> r.err, set |-> TrieOf(root)]
    /\ UNCHANGED <<diskdb, auxVars>>

ApiReference ==
    /\ ~panicked
    /\ \E ref \in {<<Hsh(5), ZeroHash>>, <<ZeroRootLeaf, ZeroHash>>,
                  <<ZeroHash, Hsh(5)>>} :
         /\ ref[1] \in DOMAIN dirties => dirties[ref[1]].parents < MaxRefs
         /\ SetDB(reference(DB, ref[1], ref[2]))
         /\ lastOp' = [op |-> "Reference", child |-> ref[1], parent |-> ref[2]]
    /\ UNCHANGED <<diskdb, auxVars>>

ApiDereference ==
    /\ ~panicked
    /\ \E root \in {ZeroHash} \cup {Hsh(5), ZeroRootLeaf} :
         /\ \E db \in Dereference(DB, root) : SetDB(db)
         /\ lastOp' = [op |-> "Dereference", root |-> root]
    /\ UNCHANGED <<diskdb, auxVars>>

NextAPI == ApiUpdate \/ ApiReference \/ ApiDereference

SpecAPI == Init /\ [][NextAPI]_vars

(***************************************************************************)
(* Database.Node (lines 139-182).  The result is [enc, err, cleans]: the   *)
(* bytes, the error ("none" when there is none) and the clean cache after  *)
(* the call.                                                               *)
(***************************************************************************)
\* cachedNode.rlp
rlp(node) == node.node.blob

\* the order of the memory layers: clean cache, then dirty map
memoryLayers_DirtyFirst(db, cl, hash) ==
    IF hash \in DOMAIN db.dirties THEN [hit |-> TRUE, enc |-> rlp(db.dirties[hash])]
    ELSE IF cl.on /\ hash \in DOMAIN cl.m THEN [hit |-> TRUE, enc |-> cl.m[hash]]
    ELSE [hit |-> FALSE, enc |-> <<>>]

\* lines 144-161
memoryLayers(db, cl, hash) ==
    IF cl.on /\ hash \in DOMAIN cl.m THEN [hit |-> TRUE, enc |-> cl.m[hash]]
    ELSE IF hash \in DOMAIN db.dirties THEN [hit |-> TRUE, enc |-> rlp(db.dirties[hash])]
    ELSE [hit |-> FALSE, enc |-> <<>>]

Node(db, cl, disk, hash, codec) ==
    IF hash = ZeroHash THEN [enc |-> <<>>, err |-> "not found", cleans |-> cl]
    ELSE
      LET mem == memoryLayers(db, cl, hash)
          \* db.diskdb.Get: the store fails with its own error for a missing key
          cid == Keccak256ToCid(codec, hash)
          got == IF cid \in DOMAIN disk THEN [enc |-> disk[cid], err |-> "none"]
                 ELSE [enc |-> <<>>, err |-> "store: not found"]
      IN IF mem.hit THEN [enc |-> mem.enc, err |-> "none", cleans |-> cl]
         ELSE IF got.err # "none" THEN [enc |-> <<>>, err |-> got.err, cleans |-> cl]
         ELSE IF Len(got.enc) # 0
         THEN [enc |-> got.enc, err |-> "none",
               cleans |-> IF cl.on THEN [cl EXCEPT !.m = MapPut(@, hash, got.enc)]
                          ELSE cl]
         ELSE [enc |-> <<>>, err |-> "not found", cleans |-> cl]

(***************************************************************************)
(* Node over a database whose store holds, under either codec, the right   *)
(* bytes of a node, other bytes, or nothing, and whose clean cache evicts  *)
(* entries at will.                                                        *)
(***************************************************************************)

InitNode ==
    /\ dirties = NewDatabaseWithConfig.dirties
    /\ oldest = NewDatabaseWithConfig.oldest
    /\ newest = NewDatabaseWithConfig.newest
    /\ dirtiesSize = NewDatabaseWithConfig.dirtiesSize
    /\ childrenSize = NewDatabaseWithConfig.childrenSize
    /\ panicked = NewDatabaseWithConfig.panic
    /\ diskdb = EmptyMap
    /\ cleans \in {[on |-> b, m |-> EmptyMap] : b \in BOOLEAN}
    /\ InitLock
    /\ InitTrie
    /\ lastOp = [op |-> "new"]

NodeCall ==
    /\ \E hash \in {ZeroHash, Hsh(3), Hsh(5)}, codec \in {MEthStateTrie, MEthStorageTrie} :
         LET r == Node(DB, cleans, diskdb, hash, codec)
         IN /\ cleans' = r.cleans
            /\ lastOp' = [op |-> "Node", hash |-> hash, codec |-> codec,
                          enc |-> r.enc, err |-> r.err]
    /\ UNCHANGED <<dbVars, diskdb, lockVars, trieVars>>

\* the dirty map gains the account trie of root 5
NodeUpdate ==
    /\ \E r \in Update(DB, MergedNodeSetOf(TrieOf(Hsh(5)), FALSE, {})) :
         SetDB(r.db)
    /\ lastOp' = [op |-> "Update", err |-> FALSE]
    /\ UNCHANGED <<diskdb, cleans, lockVars, trieVars>>

\* and loses it again
NodeDereference ==
    /\ Hsh(5) \in DOMAIN dirties
    /\ \E db \in Dereference(DB, Hsh(5)) : SetDB(db)
    /\ lastOp' = [op |-> "Dereference", root |-> Hsh(5)]
    /\ UNCHANGED <<diskdb, cleans, lockVars, trieVars>>

NodeStoreWrite ==
    /\ \E h \in {Hsh(3)}, codec \in {MEthStateTrie, MEthStorageTrie} :
         \* <<66>>: bytes that are not the encoding of the node
         \E blob \in {simplifyNode(h).blob, <<66>>, <<>>} :
            diskdb' = MapPut(diskdb, Keccak256ToCid(codec, h), blob)
    /\ lastOp' = [op |-> "StoreWrite"]
    /\ UNCHANGED <<dbVars, cleans, lockVars, trieVars>>

\* fastcache drops an entry
CleanEvict ==
    /\ \E h \in DOMAIN cleans.m : cleans' = [cleans EXCEPT !.m = MapRemove(@, h)]
    /\ lastOp' = [op |-> "Evict"]
    /\ UNCHANGED <<dbVars, diskdb, lockVars, trieVars>>

NextNode == NodeCall \/ NodeUpdate \/ NodeDereference \/ NodeStoreWrite \/ CleanEvict

SpecNode == InitNode /\ [][NextNode]_vars

(***************************************************************************)
(* Goroutines calling the database concurrently.  A call is a record       *)
(* [op, at, ...]: at "Lock"/"RLock" is the call before db.lock.Lock() /     *)
(* db.lock.RLock(), at "body" is the body under the exclusive lock, one    *)
(* step per node inserted, leaf linked or dereference frame step, at       *)
(* "read" is the read under the shared lock, at "Unlock"/"RUnlock" is the  *)
(* deferred release.                                                       *)
(***************************************************************************)
MaxCalls == 5

\* sync.RWMutex

unlocked_Kept(l) == l

unlocked(l) == [l EXCEPT !.w = NoProc]

\* the steps of Update's body: the inserts of the sets in order, then the
\* leaves of the account set
RECURSIVE setItems(_, _)
setItems(nodes, order) ==
    IF order = <<>> THEN <<>>
    ELSE LET ns == nodes.sets[Head(order)].nodes
         IN [i \in 1..Len(ns) |-> [k |-> "insert", n |-> ns[i]]]
               \o setItems(nodes, Tail(order))

leafItems(nodes) ==
    IF ZeroHash \in DOMAIN nodes.sets
    THEN [i \in 1..Len(nodes.sets[ZeroHash].leaves) |->
            [k |-> "leaf", n |-> nodes.sets[ZeroHash].leaves[i]]]
    ELSE <<>>

UpdateCalls(nodes) ==
    {[op |-> "Update", at |-> "Lock", done |-> 0,
      items |-> setItems(nodes, order) \o leafItems(nodes)] :
        order \in UpdateOrders(nodes)}

ReferenceCall_NoLock(child, parent) ==
    [op |-> "Reference", at |-> "body", child |-> child, parent |-> parent]

ReferenceCall(child, parent) ==
    [op |-> "Reference", at |-> "Lock", child |-> child, parent |-> parent]

DereferenceCall(root) ==
    [op |-> "Dereference", at |-> "Lock", root |-> root,
     stack |-> <<>>, dead |-> EmptyMap]

ReadCall(op, hash) == [op |-> op, at |-> "RLock", hash |-> hash]

\* a goroutine calls Update, Reference or Dereference
WriterCall(t, menu) ==
    /\ ~panicked
    /\ th[t] = Idle
    /\ calls < MaxCalls
    /\ \E c \in menu :
         \* lines 235-238: Dereference of the meta-root returns at once
         /\ th' = [th EXCEPT ![t] = IF c.op = "Dereference" /\ c.root = ZeroHash
                                    THEN Idle ELSE c]
         /\ lastOp' = [op |-> "call"]
    /\ calls' = calls + 1
    /\ UNCHANGED <<dbVars, diskdb, cleans, trieVars, lock>>

\* a goroutine calls the dirty lookup of Node, Nodes or Size
ReaderCall(t, menu) ==
    /\ ~panicked
    /\ th[t] = Idle
    /\ \E c \in menu : th' = [th EXCEPT ![t] = c]
    /\ lastOp' = [op |-> "call"]
    /\ UNCHANGED <<dbVars, diskdb, cleans, trieVars, lock, calls>>

\* db.lock.Lock()
LockStep(t) ==
    /\ ~panicked
    /\ th[t].at = "Lock"
    /\ lock.w = NoProc /\ lock.r = {}
    /\ lock' = [lock EXCEPT !.w = t]
    /\ th' = [th EXCEPT ![t] =
                IF th[t].op = "Dereference"
                THEN [@ EXCEPT !.at = "body", !.stack = <<Frame(th[t].root, ZeroHash)>>]
                ELSE [@ EXCEPT !.at = "body"]]
    /\ lastOp' = [op |-> "Lock"]
    /\ UNCHANGED <<dbVars, diskdb, cleans, trieVars, calls>>

\* one step of Update's body (lines 329-351)
UpdateStep(t) ==
    /\ ~panicked
    /\ th[t].op = "Update" /\ th[t].at = "body"
    /\ LET c == th[t]
           rest == [c EXCEPT !.items = Tail(@), !.done = 1]
       IN IF c.items = <<>>
          THEN /\ th' = [th EXCEPT ![t].at = "Unlock"]
               /\ lastOp' = [op |-> "Update", err |-> FALSE]
               /\ UNCHANGED dbVars
          ELSE LET it == Head(c.items)
               IN IF it.k = "insert"
                  THEN LET db == IF isDeleted(it.n) THEN DB
                                 ELSE insert(DB, it.n.hash, it.n.size, it.n.node)
                       IN /\ SetDB(db)
                          /\ th' = [th EXCEPT ![t] =
                                      IF db.panic THEN [rest EXCEPT !.at = "Unlock"]
                                      ELSE rest]
                          /\ lastOp' = [op |-> "step"]
                  ELSE LET account == DecodeAccount(it.n.blob)
                           db == IF account.Root # EmptyRootHash
                                 THEN reference(DB, account.Root, it.n.parent)
                                 ELSE DB
                       IN IF account.err
                          THEN /\ th' = [th EXCEPT ![t].at = "Unlock"]
                               /\ lastOp' = [op |-> "Update", err |-> TRUE]
                               /\ UNCHANGED dbVars
                          ELSE /\ SetDB(db)
                               /\ th' = [th EXCEPT ![t] =
                                           IF db.panic THEN [rest EXCEPT !.at = "Unlock"]
                                           ELSE rest]
                               /\ lastOp' = [op |-> "step"]
    /\ UNCHANGED <<diskdb, cleans, trieVars, lock, calls>>

\* the body of Reference (line 208)
ReferenceStep(t) ==
    /\ ~panicked
    /\ th[t].op = "Reference" /\ th[t].at = "body"
    /\ SetDB(reference(DB, th[t].child, th[t].parent))
    /\ th' = [th EXCEPT ![t].at = "Unlock"]
    /\ lastOp' = [op |-> "step"]
    /\ UNCHANGED <<diskdb, cleans, trieVars, lock, calls>>

\* one frame step of the dereference that Dereference runs (line 244)
DereferenceStep(t) ==
    /\ ~panicked
    /\ th[t].op = "Dereference" /\ th[t].at = "body"
    /\ LET c == [dirties |-> dirties, oldest |-> oldest, newest |-> newest,
                 dirtiesSize |-> dirtiesSize, childrenSize |-> childrenSize,
                 panic |-> panicked, stack |-> th[t].stack, dead |-> th[t].dead]
       IN IF c.stack = <<>>
          THEN /\ th' = [th EXCEPT ![t].at = "Unlock"]
               /\ UNCHANGED dbVars
          ELSE \E c1 \in derefSteps(c) :
                 /\ SetDB(derefEnd(c1))
                 /\ th' = [th EXCEPT ![t].stack = c1.stack, ![t].dead = c1.dead,
                                     ![t].at = IF c1.panic THEN "Unlock" ELSE "body"]
    /\ lastOp' = [op |-> "step"]
    /\ UNCHANGED <<diskdb, cleans, trieVars, lock, calls>>

\* defer db.lock.Unlock(): it runs when the body returns and when it panics
UnlockStep(t) ==
    /\ th[t].at = "Unlock"
    /\ lock' = unlocked(lock)
    /\ th' = [th EXCEPT ![t] = IF panicked THEN [op |-> "panic", at |-> "panic"]
                               ELSE Idle]
    /\ lastOp' = [op |-> "Unlock", of |-> th[t].op]
    /\ UNCHANGED <<dbVars, diskdb, cleans, trieVars, calls>>

\* db.lock.RLock()
RLockStep(t) ==
    /\ ~panicked
    /\ th[t].at = "RLock"
    /\ lock.w = NoProc
    /\ lock' = [lock EXCEPT !.r = @ \cup {t}]
    /\ th' = [th EXCEPT ![t].at = "read"]
    /\ lastOp' = [op |-> "RLock"]
    /\ UNCHANGED <<dbVars, diskdb, cleans, trieVars, calls>>

\* line 154: db.dirties[hash]; lines 191-196: the hashes of the dirty map;
\* line 363: the sizes
ReadStep(t) ==
    /\ ~panicked
    /\ th[t].at = "read"
    /\ lastOp' = [op |-> th[t].op,
                  obs |-> IF th[t].op = "Node" THEN th[t].hash \in DOMAIN dirties
                          ELSE IF th[t].op = "Nodes" THEN (DOMAIN dirties) \ {ZeroHash}
                          ELSE dirtiesSize + childrenSize]
    /\ th' = [th EXCEPT ![t].at = "RUnlock"]
    /\ UNCHANGED <<dbVars, diskdb, cleans, trieVars, lock, calls>>

\* db.lock.RUnlock()
RUnlockStep(t) ==
    /\ th[t].at = "RUnlock"
    /\ lock' = [lock EXCEPT !.r = @ \ {t}]
    /\ th' = [th EXCEPT ![t] = Idle]
    /\ lastOp' = [op |-> "RUnlock"]
    /\ UNCHANGED <<dbVars, diskdb, cleans, trieVars, calls>>

WriterSteps(t) ==
    LockStep(t) \/ UpdateStep(t) \/ ReferenceStep(t) \/ DereferenceStep(t)
        \/ UnlockStep(t)

ReaderSteps(t) == RLockStep(t) \/ ReadStep(t) \/ RUnlockStep(t)

(***************************************************************************)
(* Two goroutines commit tries, anchor roots and collect roots while a     *)
(* third one reads.                                                        *)
(***************************************************************************)
LockMenu ==
    UpdateCalls(MergedNodeSetOf(TrieOf(Hsh(5)), FALSE, {}))
        \cup UpdateCalls(MergedNodeSetOf(TrieOf(Hsh(6)), FALSE, {}))
        \cup {ReferenceCall(r, ZeroHash) : r \in {Hsh(5), Hsh(6)}}
        \cup {DereferenceCall(r) : r \in {Hsh(5), Hsh(6)}}

NextLock ==
    \/ \E t \in {1, 2} : WriterCall(t, LockMenu) \/ WriterSteps(t)
    \/ \E t \in {3} :
         \/ ReaderCall(t, {ReadCall("Node", Hsh(3)), ReadCall("Nodes", ZeroHash),
                           ReadCall("Size", ZeroHash)})
         \/ ReaderSteps(t)

SpecLock == Init /\ [][NextLock]_vars

(***************************************************************************)
(* One goroutine ingests commits, among them commits whose account set     *)
(* holds a deleted entry, anchors roots and collects them.                 *)
(***************************************************************************)
NextIngest ==
    \E t \in {1} :
       \/ WriterCall(t, LockMenu
                          \cup UpdateCalls(MergedNodeSetOf(TrieOf(Hsh(5)), TRUE, {}))
                          \cup UpdateCalls(MergedNodeSetOf(TrieOf(Hsh(6)), TRUE, {})))
       \/ WriterSteps(t)

SpecIngest == Init /\ [][NextIngest]_vars

(***************************************************************************)
(* One goroutine commits a trie, adds references between its dirty nodes   *)
(* (among them references that close a cycle) and collects, while another  *)
(* one reads.                                                              *)
(***************************************************************************)
\* goroutine 1 writes, goroutine 3 reads
NextGC ==
    \/ \E t \in {1} :
         \/ WriterCall(t,
               UpdateCalls(MergedNodeSetOf(TrieOf(Hsh(6)), FALSE, {}))
                 \cup {ReferenceCall(e[1], e[2]) :
                          e \in {<<Hsh(6), ZeroHash>>, <<Hsh(6), Hsh(1)>>,
                                 <<Hsh(2), Hsh(2)>>, <<Hsh(1), Hsh(6)>>}}
                 \cup {DereferenceCall(r) : r \in {ZeroHash, Hsh(6), Hsh(2)}})
         \/ WriterSteps(t)
    \/ \E t \in {3} : ReaderCall(t, {ReadCall("Nodes", ZeroHash)}) \/ ReaderSteps(t)

\* the scheduler runs every goroutine that can take a step
FairGC ==
    /\ Init /\ [][NextGC]_vars
    /\ \A t \in {1} : WF_vars(WriterSteps(t))
    /\ \A t \in {3} : WF_vars(ReaderSteps(t))

(***************************************************************************)
(* The trie.  A node is nil, a valueNode [v], a shortNode [Key, Val], a    *)
(* fullNode [Children] with one child per nibble and one for the           *)
(* terminator, or a hashNode [h]; shortNodes and fullNodes carry the dirty *)
(* flag.  Keys are byte strings; nibbles run from 0 to MaxNibble.          *)
(***************************************************************************)
MaxNibble == 1

\* the terminator of a hex key and the slot of a fullNode that holds a value
Terminator == 16

Slots == (0..MaxNibble) \cup {Terminator}

\* the value slot before the nibbles
SlotSeq_TermFirst == [i \in 1..(MaxNibble + 2) |-> IF i = 1 THEN Terminator ELSE i - 2]

\* the slots in the order of fullNode.Children
SlotSeq == [i \in 1..(MaxNibble + 2) |-> IF i = MaxNibble + 2 THEN Terminator ELSE i - 1]

nilNode == [t |-> "nil"]

valueNode(v) == [t |-> "value", v |-> v]

shortNode(Key, Val, dirty) == [t |-> "short", Key |-> Key, Val |-> Val, dirty |-> dirty]

fullNode(Children, dirty) == [t |-> "full", Children |-> Children, dirty |-> dirty]

hashNode(h) == [t |-> "hash", h |-> h]

emptyChildren == [i \in Slots |-> nilNode]

\* keybytesToHex of the trie package: two nibbles per byte, then the
\* terminator (the one of trie_builder_utils adds no terminator)
RECURSIVE keybytesToHex(_)
keybytesToHex(str) ==
    IF str = <<>> THEN <<Terminator>>
    ELSE <<Head(str) \div 16, Head(str) % 16>> \o keybytesToHex(Tail(str))

\* nibbles to bytes, two per byte
RECURSIVE decodeNibbles(_)
decodeNibbles(nibbles) ==
    IF Len(nibbles) < 2 THEN <<>>
    ELSE <<nibbles[1] * 16 + nibbles[2]>> \o decodeNibbles(SubSeq(nibbles, 3, Len(nibbles)))

\* hexToCompact: the flag nibble holds the terminator bit and the odd bit
hexToCompact(hex) ==
    LET term == IF Len(hex) > 0 /\ hex[Len(hex)] = Terminator THEN 1 ELSE 0
        h == IF term = 1 THEN SubSeq(hex, 1, Len(hex) - 1) ELSE hex
        odd == Len(h) % 2
    IN decodeNibbles((IF odd = 1 THEN <<2 * term + 1>> ELSE <<2 * term, 0>>) \o h)

\* compactToHex
compactToHex(compact) ==
    IF compact = <<>> THEN <<>>
    ELSE LET base0 == keybytesToHex(compact)
             base == IF base0[1] < 2 THEN SubSeq(base0, 1, Len(base0) - 1) ELSE base0
             chop == 2 - (base[1] % 2)
         IN SubSeq(base, chop + 1, Len(base))

\* prefixLen: the length of the common prefix
RECURSIVE prefixLen(_, _)
prefixLen(a, b) ==
    IF a = <<>> \/ b = <<>> \/ Head(a) # Head(b) THEN 0
    ELSE 1 + prefixLen(Tail(a), Tail(b))

(***************************************************************************)
(* The encoding of a collapsed node (its children are values, hashes or    *)
(* nil) as a byte string, and its decoding.  Every item starts with a tag, *)
(* byte strings carry their length.                                        *)
(***************************************************************************)
Tag == [Nil |-> 1, Value |-> 2, Hash |-> 3, Short |-> 4, Full |-> 5]

RECURSIVE nodeToBytes(_)
RECURSIVE encodeChildren(_, _)
encodeChildren(children, i) ==
    IF i > Len(SlotSeq) THEN <<>>
    ELSE nodeToBytes(children[SlotSeq[i]]) \o encodeChildren(children, i + 1)

nodeToBytes(n) ==
    IF n.t = "nil" THEN <<Tag.Nil>>
    ELSE IF n.t = "value" THEN <<Tag.Value, n.v>>
    ELSE IF n.t = "hash" THEN <<Tag.Hash, Len(n.h)>> \o n.h
    ELSE IF n.t = "short"
    THEN <<Tag.Short, Len(hexToCompact(n.Key))>> \o hexToCompact(n.Key) \o nodeToBytes(n.Val)
    ELSE <<Tag.Full>> \o encodeChildren(n.Children, 1)

\* the result of decoding the item at the head of buf: [ok, node, rest]
decodeError == [ok |-> FALSE, node |-> nilNode, rest |-> <<>>]

RECURSIVE decodeItem(_)
RECURSIVE decodeChildren(_, _, _)
decodeChildren(buf, i, children) ==
    IF i > Len(SlotSeq) THEN [ok |-> TRUE, node |-> fullNode(children, FALSE), rest |-> buf]
    ELSE LET d == decodeItem(buf)
         IN IF ~d.ok THEN decodeError
            ELSE decodeChildren(d.rest, i + 1, [children EXCEPT ![SlotSeq[i]] = d.node])

decodeItem(buf) ==
    IF buf = <<>> THEN decodeError
    ELSE LET tag == Head(buf)
             rest == Tail(buf)
         IN IF tag = Tag.Nil THEN [ok |-> TRUE, node |-> nilNode, rest |-> rest]
            ELSE IF tag = Tag.Value
            THEN IF rest = <<>> THEN decodeError
                 ELSE [ok |-> TRUE, node |-> valueNode(Head(rest)), rest |-> Tail(rest)]
            ELSE IF tag = Tag.Hash
            THEN IF rest = <<>> \/ Len(rest) < 1 + Head(rest) THEN decodeError
                 ELSE [ok |-> TRUE,
                       node |-> hashNode(SubSeq(rest, 2, 1 + Head(rest))),
                       rest |-> SubSeq(rest, 2 + Head(rest), Len(rest))]
            ELSE IF tag = Tag.Short
            THEN IF rest = <<>> \/ Len(rest) < 1 + Head(rest) THEN decodeError
                 ELSE LET key == compactToHex(SubSeq(rest, 2, 1 + Head(rest)))
                          d == decodeItem(SubSeq(rest, 2 + Head(rest), Len(rest)))
                      IN IF ~d.ok THEN decodeError
                         ELSE [ok |-> TRUE, node |-> shortNode(key, d.node, FALSE),
                               rest |-> d.rest]
            ELSE IF tag = Tag.Full THEN decodeChildren(rest, 1, emptyChildren)
            ELSE decodeError

\* decodeNodeUnsafe: [node, err]; the blob of a node is a shortNode or a
\* fullNode and nothing follows it
decodeNodeUnsafe(hash, buf) ==
    LET d == decodeItem(buf)
    IN IF d.ok /\ d.rest = <<>> /\ d.node.t \in {"short", "full"}
       THEN [node |-> d.node, err |-> "none"]
       ELSE [node |-> nilNode, err |-> "decode"]

(***************************************************************************)
(* Hashing.  Keccak256 is collision free: the digest is the bytes it was    *)
(* computed from, followed by a mark.  A node is hashed in collapsed form,  *)
(* with every shortNode and fullNode below it replaced by the hashNode of   *)
(* its hash.                                                                *)
(***************************************************************************)
Keccak256(b) == b \o <<1>>

RECURSIVE hashOf(_)
hashedChild(c) == IF c.t \in {"short", "full"} THEN hashNode(hashOf(c)) ELSE c

collapse(n) ==
    IF n.t = "short" THEN [n EXCEPT !.Val = hashedChild(@)]
    ELSE IF n.t = "full"
    THEN [n EXCEPT !.Children = [i \in Slots |-> hashedChild(n.Children[i])]]
    ELSE n

hashOf(n) == IF n.t = "hash" THEN n.h ELSE Keccak256(nodeToBytes(collapse(n)))

\* the hash references inside a collapsed node, in the order of its children
RECURSIVE childHashes(_, _)
childHashes(children, i) ==
    IF i > Len(SlotSeq) THEN <<>>
    ELSE (IF children[SlotSeq[i]].t = "hash" THEN <<children[SlotSeq[i]].h>> ELSE <<>>)
            \o childHashes(children, i + 1)

hashChilds(n) ==
    IF n.t = "short" THEN (IF n.Val.t = "hash" THEN <<n.Val.h>> ELSE <<>>)
    ELSE IF n.t = "full" THEN childHashes(n.Children, 1)
    ELSE <<>>

(***************************************************************************)
(* Reading a trie: New, resolveHash, TryGet.  A trie handle is [state,     *)
(* root, owner, codec, base]: state "open", "committed" (after Commit: to  *)
(* be read and hashed, not changed) or "none" (no trie), base the root     *)
(* hash it was opened at.  rd is the database it reads, [db, cl,      *)
(* disk].  An error is [kind, ...], kind "none" when there is none.        *)
(***************************************************************************)
nilValue == 0

noError == [kind |-> "none"]

MissingNodeError(owner, hash, path) ==
    [kind |-> "MissingNodeError", Owner |-> owner, NodeHash |-> hash, Path |-> path]

NoTrie == [state |-> "none", root |-> nilNode, owner |-> ZeroHash, codec |-> 0,
           base |-> ZeroHash]

Reader == [db |-> DB, cl |-> cleans, disk |-> diskdb]

\* F applied to the value v: v is computed once
With(v, F(_)) == F(v)

\* Trie.resolveHash: [node, err]
resolveHash(t, rd, n, prefix) ==
    With(Node(rd.db, rd.cl, rd.disk, n, t.codec), LAMBDA r :
      IF r.err # "none" THEN [node |-> nilNode, err |-> [kind |-> r.err]]
      ELSE With(decodeNodeUnsafe(n, r.enc), LAMBDA d :
        IF d.err # "none" THEN [node |-> nilNode, err |-> [kind |-> d.err]]
        ELSE IF d.node.t # "nil" THEN [node |-> d.node, err |-> noError]
        ELSE [node |-> nilNode, err |-> MissingNodeError(t.owner, n, prefix)]))

\* Trie.tryGet: [value, newnode, didResolve, err]; pos counts from 0
RECURSIVE tryGet(_, _, _, _, _)
tryGet(t, rd, n, key, pos) ==
    IF n.t = "nil"
    THEN [value |-> nilValue, newnode |-> nilNode, didResolve |-> FALSE, err |-> noError]
    ELSE IF n.t = "value"
    THEN [value |-> n.v, newnode |-> n, didResolve |-> FALSE, err |-> noError]
    ELSE IF n.t = "short"
    THEN IF Len(key) - pos < Len(n.Key)
            \/ n.Key # SubSeq(key, pos + 1, pos + Len(n.Key))
         THEN [value |-> nilValue, newnode |-> n, didResolve |-> FALSE, err |-> noError]
         ELSE With(tryGet(t, rd, n.Val, key, pos + Len(n.Key)), LAMBDA r :
                [r EXCEPT !.newnode = IF r.err = noError /\ r.didResolve
                                      THEN [n EXCEPT !.Val = r.newnode] ELSE n])
    ELSE IF n.t = "full"
    THEN With(tryGet(t, rd, n.Children[key[pos + 1]], key, pos + 1), LAMBDA r :
           [r EXCEPT !.newnode = IF r.err = noError /\ r.didResolve
                                 THEN [n EXCEPT !.Children[key[pos + 1]] = r.newnode]
                                 ELSE n])
    ELSE With(resolveHash(t, rd, n.h, SubSeq(key, 1, pos)), LAMBDA child :
           IF child.err # noError
           THEN [value |-> nilValue, newnode |-> n, didResolve |-> TRUE, err |-> child.err]
           ELSE [tryGet(t, rd, child.node, key, pos) EXCEPT !.didResolve = TRUE])

\* TryGet that walks the bytes of the key, not its nibbles
TryGet_NoNibbles(t, rd, key) ==
    With(tryGet(t, rd, t.root, key \o <<Terminator>>, 0), LAMBDA r :
      [value |-> r.value, err |-> r.err,
       trie |-> IF r.err = noError /\ r.didResolve THEN [t EXCEPT !.root = r.newnode]
                ELSE t])

\* TryGet that drops the root when the lookup fails
TryGet_ClearsOnError(t, rd, key) ==
    With(tryGet(t, rd, t.root, keybytesToHex(key), 0), LAMBDA r :
      [value |-> r.value, err |-> r.err,
       trie |-> IF r.err # noError THEN [t EXCEPT !.root = nilNode]
                ELSE IF r.didResolve THEN [t EXCEPT !.root = r.newnode]
                ELSE t])

\* Trie.TryGet: [value, err, trie]
TryGet(t, rd, key) ==
    With(tryGet(t, rd, t.root, keybytesToHex(key), 0), LAMBDA r :
      [value |-> r.value, err |-> r.err,
       trie |-> IF r.err = noError /\ r.didResolve THEN [t EXCEPT !.root = r.newnode]
                ELSE t])

\* New that resolves the empty root like any other root
New_ResolveEmpty(owner, root, rd, codec) ==
    With([state |-> "open", root |-> nilNode, owner |-> owner, codec |-> codec,
          base |-> root], LAMBDA tr :
      IF root # ZeroHash
      THEN With(resolveHash(tr, rd, root, <<>>), LAMBDA rootnode :
             IF rootnode.err # noError THEN [trie |-> NoTrie, err |-> rootnode.err]
             ELSE [trie |-> [tr EXCEPT !.root = rootnode.node], err |-> noError])
      ELSE [trie |-> tr, err |-> noError])

\* New: [trie, err]
New(owner, root, rd, codec) ==
    With([state |-> "open", root |-> nilNode, owner |-> owner, codec |-> codec,
          base |-> root], LAMBDA tr :
      IF root # ZeroHash /\ root # EmptyRootHash
      THEN With(resolveHash(tr, rd, root, <<>>), LAMBDA rootnode :
             IF rootnode.err # noError THEN [trie |-> NoTrie, err |-> rootnode.err]
             ELSE [trie |-> [tr EXCEPT !.root = rootnode.node], err |-> noError])
      ELSE [trie |-> tr, err |-> noError])

\* hashRoot that hands back the collapsed root as the cached one
hashRoot_Collapsed(t) ==
    IF t.root.t = "nil" THEN [hashed |-> EmptyRootHash, cached |-> nilNode]
    ELSE [hashed |-> hashOf(t.root), cached |-> collapse(t.root)]

\* Trie.hashRoot: [hashed, cached], cached the root with its hashes
\* memoized, which is the same node graph
hashRoot(t) ==
    IF t.root.t = "nil" THEN [hashed |-> EmptyRootHash, cached |-> nilNode]
    ELSE [hashed |-> hashOf(t.root), cached |-> t.root]

\* Trie.Hash: the hash returned; the handle keeps hashRoot(t).cached
Hash(t) == hashRoot(t).hashed

(***************************************************************************)
(* Writing a trie: insert, delete, Commit.  insert and delete return       *)
(* [dirty, node, err].                                                     *)
(***************************************************************************)
RECURSIVE trieInsert(_, _, _, _, _, _)
trieInsert(t, rd, n, prefix, key, value) ==
    IF key = <<>>
    THEN [dirty |-> IF n.t = "value" THEN n.v # value.v ELSE TRUE,
          node |-> value, err |-> noError]
    ELSE IF n.t = "short"
    THEN With(prefixLen(key, n.Key), LAMBDA matchlen :
           IF matchlen = Len(n.Key)
           THEN With(trieInsert(t, rd, n.Val, prefix \o SubSeq(key, 1, matchlen),
                                SubSeq(key, matchlen + 1, Len(key)), value), LAMBDA r :
                  IF r.err # noError \/ ~r.dirty
                  THEN [dirty |-> FALSE, node |-> n, err |-> r.err]
                  ELSE [dirty |-> TRUE, node |-> shortNode(n.Key, r.node, TRUE),
                        err |-> noError])
           ELSE
             \* the keys diverge: a fullNode at the point of divergence
             With(fullNode([emptyChildren EXCEPT
                     ![n.Key[matchlen + 1]] =
                         trieInsert(t, rd, nilNode, <<>>,
                                    SubSeq(n.Key, matchlen + 2, Len(n.Key)), n.Val).node,
                     ![key[matchlen + 1]] =
                         trieInsert(t, rd, nilNode, <<>>,
                                    SubSeq(key, matchlen + 2, Len(key)), value).node],
                   TRUE), LAMBDA branch :
               [dirty |-> TRUE,
                node |-> IF matchlen = 0 THEN branch
                         ELSE shortNode(SubSeq(key, 1, matchlen), branch, TRUE),
                err |-> noError]))
    ELSE IF n.t = "full"
    THEN With(trieInsert(t, rd, n.Children[key[1]], prefix \o <<key[1]>>,
                         Tail(key), value), LAMBDA r :
           IF r.err # noError \/ ~r.dirty
           THEN [dirty |-> FALSE, node |-> n, err |-> r.err]
           ELSE [dirty |-> TRUE,
                 node |-> fullNode([n.Children EXCEPT ![key[1]] = r.node], TRUE),
                 err |-> noError])
    ELSE IF n.t = "nil"
    THEN [dirty |-> TRUE, node |-> shortNode(key, value, TRUE), err |-> noError]
    ELSE IF n.t = "hash"
    THEN With(resolveHash(t, rd, n.h, prefix), LAMBDA rn :
           IF rn.err # noError THEN [dirty |-> FALSE, node |-> n, err |-> rn.err]
           ELSE With(trieInsert(t, rd, rn.node, prefix, key, value), LAMBDA r :
                  IF r.err # noError \/ ~r.dirty
                  THEN [dirty |-> FALSE, node |-> rn.node, err |-> r.err]
                  ELSE r))
    ELSE [dirty |-> TRUE, node |-> value, err |-> noError]

\* the slots of a fullNode that hold a child
usedSlots(children) == {i \in Slots : children[i].t # "nil"}

\* a fullNode left with one child becomes a shortNode
collapseSlots_Kept(t, rd, n, prefix) == [node |-> n, err |-> noError]

collapseSlots(t, rd, n, prefix) ==
    IF Cardinality(usedSlots(n.Children)) # 1 THEN [node |-> n, err |-> noError]
    ELSE With(CHOOSE i \in usedSlots(n.Children) : TRUE, LAMBDA pos :
           IF pos = Terminator
           THEN [node |-> shortNode(<<pos>>, n.Children[pos], TRUE), err |-> noError]
           ELSE With(IF n.Children[pos].t = "hash"
                     THEN resolveHash(t, rd, n.Children[pos].h, prefix \o <<pos>>)
                     ELSE [node |-> n.Children[pos], err |-> noError], LAMBDA cnode :
                  IF cnode.err # noError THEN [node |-> n, err |-> cnode.err]
                  ELSE IF cnode.node.t = "short"
                  THEN [node |-> shortNode(<<pos>> \o cnode.node.Key, cnode.node.Val,
                                           TRUE),
                        err |-> noError]
                  ELSE [node |-> shortNode(<<pos>>, n.Children[pos], TRUE),
                        err |-> noError]))

RECURSIVE trieDelete(_, _, _, _, _)
trieDelete(t, rd, n, prefix, key) ==
    IF n.t = "short"
    THEN With(prefixLen(key, n.Key), LAMBDA matchlen :
           IF matchlen < Len(n.Key) THEN [dirty |-> FALSE, node |-> n, err |-> noError]
           ELSE IF matchlen = Len(key)
           THEN [dirty |-> TRUE, node |-> nilNode, err |-> noError]
           ELSE With(trieDelete(t, rd, n.Val, prefix \o SubSeq(key, 1, Len(n.Key)),
                                SubSeq(key, Len(n.Key) + 1, Len(key))), LAMBDA r :
                  IF r.err # noError \/ ~r.dirty
                  THEN [dirty |-> FALSE, node |-> n, err |-> r.err]
                  ELSE IF r.node.t = "short"
                  THEN [dirty |-> TRUE,
                        node |-> shortNode(n.Key \o r.node.Key, r.node.Val, TRUE),
                        err |-> noError]
                  ELSE [dirty |-> TRUE, node |-> shortNode(n.Key, r.node, TRUE),
                        err |-> noError]))
    ELSE IF n.t = "full"
    THEN With(trieDelete(t, rd, n.Children[key[1]], prefix \o <<key[1]>>, Tail(key)),
              LAMBDA r :
           IF r.err # noError \/ ~r.dirty
           THEN [dirty |-> FALSE, node |-> n, err |-> r.err]
           ELSE With(fullNode([n.Children EXCEPT ![key[1]] = r.node], TRUE), LAMBDA n1 :
                  IF r.node.t # "nil" THEN [dirty |-> TRUE, node |-> n1, err |-> noError]
                  ELSE With(collapseSlots(t, rd, n1, prefix), LAMBDA c :
                         IF c.err # noError
                         THEN [dirty |-> FALSE, node |-> n, err |-> c.err]
                         ELSE [dirty |-> TRUE, node |-> c.node, err |-> noError])))
    ELSE IF n.t = "value" THEN [dirty |-> TRUE, node |-> nilNode, err |-> noError]
    ELSE IF n.t = "nil" THEN [dirty |-> FALSE, node |-> nilNode, err |-> noError]
    ELSE With(resolveHash(t, rd, n.h, prefix), LAMBDA rn :
           IF rn.err # noError THEN [dirty |-> FALSE, node |-> n, err |-> rn.err]
           ELSE With(trieDelete(t, rd, rn.node, prefix, key), LAMBDA r :
                  IF r.err # noError \/ ~r.dirty
                  THEN [dirty |-> FALSE, node |-> rn.node, err |-> r.err]
                  ELSE r))

\* Trie.TryUpdate: [trie, err]; an empty value deletes the key
TryUpdate(t, rd, key, value) ==
    With(IF value # nilValue
         THEN trieInsert(t, rd, t.root, <<>>, keybytesToHex(key), valueNode(value))
         ELSE trieDelete(t, rd, t.root, <<>>, keybytesToHex(key)), LAMBDA r :
      IF r.err # noError THEN [trie |-> t, err |-> r.err]
      ELSE [trie |-> [t EXCEPT !.root = r.node], err |-> noError])

\* StateTrie.hashKey that leaves the key as it is
hashKey_Raw(key) == key

\* StateTrie.hashKey
hashKey(key) == Keccak256(key)

\* StateTrie.TryGet: [trie, value, err]
StateTrieTryGet(t, rd, key) == TryGet(t, rd, hashKey(key))

\* StateTrie.TryGetAccount: [trie, account, err, panic].  The value 1 is the
\* encoding of an account, rlp.DecodeBytes fails on every other value.
TryGetAccount(t, rd, key) ==
    With(StateTrieTryGet(t, rd, key), LAMBDA r :
      IF r.err # noError
      THEN [trie |-> r.trie, account |-> nilValue, err |-> r.err, panic |-> TRUE]
      ELSE IF r.value = nilValue
      THEN [trie |-> r.trie, account |-> nilValue, err |-> noError, panic |-> FALSE]
      ELSE [trie |-> r.trie, account |-> r.value,
            err |-> IF r.value = 1 THEN noError ELSE [kind |-> "rlp: decode error"],
            panic |-> FALSE])

\* Trie.TryDelete: [trie, err]
TryDelete(t, rd, key) ==
    With(trieDelete(t, rd, t.root, <<>>, keybytesToHex(key)), LAMBDA r :
      IF r.err # noError THEN [trie |-> t, err |-> r.err]
      ELSE [trie |-> [t EXCEPT !.root = r.node], err |-> noError])

\* the memoryNodes of the dirty nodes below and at n, children first
RECURSIVE commitNodes(_)
RECURSIVE commitChildren(_, _)
commitChildren(children, i) ==
    IF i > Len(SlotSeq) THEN <<>>
    ELSE commitNodes(children[SlotSeq[i]]) \o commitChildren(children, i + 1)

commitNodes(n) ==
    IF n.t \in {"short", "full"} /\ n.dirty
    THEN (IF n.t = "short" THEN commitNodes(n.Val) ELSE commitChildren(n.Children, 1))
            \o <<[hash |-> hashOf(n), size |-> Len(nodeToBytes(collapse(n))),
                  node |-> [childs |-> hashChilds(collapse(n)),
                            blob |-> nodeToBytes(collapse(n))]]>>
    ELSE <<>>

\* Trie.Commit(false): [root, nodes, trie], nodes the NodeSet [owner, nodes,
\* leaves], trie the handle afterwards: its root is the hash placeholder
\* of the committed root
Commit(t) ==
    [root |-> Hash(t),
     nodes |-> [owner |-> t.owner, nodes |-> commitNodes(t.root), leaves |-> <<>>],
     trie |-> [t EXCEPT !.state = "committed",
                        !.root = IF t.root.t \in {"short", "full"}
                                 THEN hashNode(hashOf(t.root)) ELSE t.root]]

\* NewWithNodeSet
NewWithNodeSet(set) ==
    [sets |-> (set.owner :> [nodes |-> set.nodes, leaves |-> set.leaves])]

(***************************************************************************)
(* Proofs.  Prove walks the path of the key and writes the encoding of      *)
(* every node on it to proofDb under its hash; VerifyProof replays the path *)
(* from the root hash over proofDb.                                         *)
(***************************************************************************)
\* the first loop of Trie.Prove: [nodes, err]
RECURSIVE proveWalk(_, _, _, _, _, _)
proveWalk(t, rd, tn, key, prefix, nodes) ==
    IF key = <<>> \/ tn.t = "nil" THEN [nodes |-> nodes, err |-> noError]
    ELSE IF tn.t = "short"
    THEN IF Len(key) < Len(tn.Key) \/ tn.Key # SubSeq(key, 1, Len(tn.Key))
         THEN [nodes |-> nodes \o <<tn>>, err |-> noError]
         ELSE proveWalk(t, rd, tn.Val, SubSeq(key, Len(tn.Key) + 1, Len(key)),
                        prefix \o tn.Key, nodes \o <<tn>>)
    ELSE IF tn.t = "full"
    THEN proveWalk(t, rd, tn.Children[key[1]], Tail(key), prefix \o <<key[1]>>,
                   nodes \o <<tn>>)
    ELSE IF tn.t = "hash"
    THEN With(resolveHash(t, rd, tn.h, prefix), LAMBDA r :
           IF r.err # noError THEN [nodes |-> nodes, err |-> r.err]
           ELSE proveWalk(t, rd, r.node, key, prefix, nodes))
    ELSE [nodes |-> nodes, err |-> [kind |-> "panic: invalid node"]]

\* the second loop of Trie.Prove without the root node
proofElements_NoRoot(nodes, fromLevel) ==
    With({nodes[i] : i \in (fromLevel + 2)..Len(nodes)}, LAMBDA ns :
      [h \in {hashOf(n) : n \in ns} |->
         nodeToBytes(collapse(CHOOSE n \in ns : hashOf(n) = h))])

\* the second loop of Trie.Prove: the (hash, encoding) pairs put into
\* proofDb.  Every node is stored under its own hash, so every node on the
\* path is a proof element.
proofElements(nodes, fromLevel) ==
    With({nodes[i] : i \in (fromLevel + 1)..Len(nodes)}, LAMBDA ns :
      [h \in {hashOf(n) : n \in ns} |->
         nodeToBytes(collapse(CHOOSE n \in ns : hashOf(n) = h))])

\* Prove that writes the nodes it has walked when a node is missing
Prove_Partial(t, rd, key, fromLevel) ==
    With(proveWalk(t, rd, t.root, keybytesToHex(key), <<>>, <<>>), LAMBDA w :
      [err |-> w.err, puts |-> proofElements(w.nodes, fromLevel)])

\* Trie.Prove: [err, puts], puts what proofDb holds afterwards
Prove(t, rd, key, fromLevel) ==
    With(proveWalk(t, rd, t.root, keybytesToHex(key), <<>>, <<>>), LAMBDA w :
      IF w.err # noError THEN [err |-> w.err, puts |-> EmptyMap]
      ELSE [err |-> noError, puts |-> proofElements(w.nodes, fromLevel)])

\* get(tn, key, true) of VerifyProof: [key, node], the first hashNode or
\* valueNode on the path of key below tn, nil when the path ends before
RECURSIVE proofGet(_, _)
proofGet(tn, key) ==
    IF tn.t = "short"
    THEN IF Len(key) < Len(tn.Key) \/ tn.Key # SubSeq(key, 1, Len(tn.Key))
         THEN [key |-> <<>>, node |-> nilNode]
         ELSE proofGet(tn.Val, SubSeq(key, Len(tn.Key) + 1, Len(key)))
    ELSE IF tn.t = "full" THEN proofGet(tn.Children[key[1]], Tail(key))
    ELSE IF tn.t = "value" THEN [key |-> <<>>, node |-> tn]
    ELSE [key |-> key, node |-> tn]

\* VerifyProof: [value, err]; key is the hex key
RECURSIVE VerifyProof(_, _, _)
VerifyProof(wantHash, key, proofDb) ==
    IF wantHash \notin DOMAIN proofDb
    THEN [value |-> nilValue, err |-> [kind |-> "proof node missing"]]
    ELSE With(decodeNodeUnsafe(wantHash, proofDb[wantHash]), LAMBDA d :
           IF d.err # "none" THEN [value |-> nilValue, err |-> [kind |-> "bad proof node"]]
           ELSE With(proofGet(d.node, key), LAMBDA g :
                  IF g.node.t = "nil" THEN [value |-> nilValue, err |-> noError]
                  ELSE IF g.node.t = "hash" THEN VerifyProof(g.node.h, g.key, proofDb)
                  ELSE [value |-> g.node.v, err |-> noError]))

(***************************************************************************)
(* Iteration.  The leaves of a trie in the order of their paths: the       *)
(* children of a fullNode in the order of their slots, the value slot      *)
(* last.  A subtree whose paths all lie before the seek key is not         *)
(* entered.  A node that cannot be resolved ends the iteration.            *)
(***************************************************************************)
\* the leaves below n: a sequence of [path, Value], an [err] ends it
\* bytes.Compare(a, b) < 0
bytesLess(a, b) ==
    \/ Len(a) < Len(b) /\ a = SubSeq(b, 1, Len(a))
    \/ \E i \in 1..Len(a) :
          /\ i <= Len(b) /\ a[i] < b[i]
          /\ \A j \in 1..(i - 1) : a[j] = b[j]

\* an iterator that does not seek
skipped_Never(path, seek) == FALSE

\* seek that also passes over the node at the seek path
skipped_Equal(path, seek) ==
    \/ path = seek
    \/ \E i \in 1..Len(path) :
          /\ i <= Len(seek) /\ path[i] < seek[i]
          /\ \A j \in 1..(i - 1) : path[j] = seek[j]

\* the subtree at path holds no path at or after seek: its paths differ
\* from seek at a nibble that is smaller
skipped(path, seek) ==
    \E i \in 1..Len(path) :
       /\ i <= Len(seek) /\ path[i] < seek[i]
       /\ \A j \in 1..(i - 1) : path[j] = seek[j]

\* the leaves below n from the seek path on, in the order of the children
RECURSIVE iterLeaves(_, _, _, _, _)
iterLeaves(t, rd, n, path, seek) ==
    IF skipped(path, seek) THEN <<>>
    ELSE IF n.t = "nil" THEN <<>>
    ELSE IF n.t = "value" THEN <<[path |-> path, Value |-> n.v]>>
    ELSE IF n.t = "short" THEN iterLeaves(t, rd, n.Val, path \o n.Key, seek)
    ELSE IF n.t = "full"
    THEN LET RECURSIVE childs(_)
             childs(i) ==
                 IF i > Len(SlotSeq) THEN <<>>
                 ELSE iterLeaves(t, rd, n.Children[SlotSeq[i]],
                                 path \o <<SlotSeq[i]>>, seek) \o childs(i + 1)
         IN childs(1)
    ELSE With(resolveHash(t, rd, n.h, path), LAMBDA r :
           IF r.err # noError THEN <<[err |-> r.err]>>
           ELSE iterLeaves(t, rd, r.node, path, seek))

\* NewIterator(t.NodeIterator(start)) run to its end: [out, err], out the
\* sequence of [Key, Value] that Next yields
\* nodeIterator.seek: the nibbles of the start key without the terminator
seekPath(start) == SubSeq(keybytesToHex(start), 1, 2 * Len(start))

NodeIterator(t, rd, start) ==
    With(iterLeaves(t, rd, t.root, <<>>, seekPath(start)), LAMBDA ls :
      With({i \in 1..Len(ls) : "err" \in DOMAIN ls[i]}, LAMBDA errs :
        With(IF errs = {} THEN Len(ls)
             ELSE (CHOOSE i \in errs : \A j \in errs : i <= j) - 1, LAMBDA m :
          [out |-> [i \in 1..m |->
                      [Key |-> decodeNibbles(SubSeq(ls[i].path, 1, Len(ls[i].path) - 1)),
                       Value |-> ls[i].Value]],
           err |-> IF errs = {} THEN noError ELSE ls[m + 1].err])))

(***************************************************************************)
(* A caller opens tries over the database, reads and writes them, commits  *)
(* them, ingests the NodeSet of a commit with Database.Update and collects *)
(* roots with Dereference.                                                 *)
(***************************************************************************)
MaxValue == 2

MaxCommits == 1

\* the keys (byte strings) and values the caller uses
TrieKeys == {<<0>>, <<1>>, <<0, 1>>}

TrieNew ==
    /\ ~panicked
    \* <<Tag.Short>>: a root hash that no commit produces
    /\ \E root \in (DOMAIN roots) \cup {ZeroHash, EmptyRootHash, <<Tag.Short>>} :
         LET r == New(ZeroHash, root, Reader, MEthStateTrie)
         IN /\ trie' = r.trie
            /\ kv' = IF root \in DOMAIN roots /\ r.err = noError THEN roots[root]
                     ELSE EmptyMap
            /\ lastOp' = [op |-> "New", root |-> root, known |-> root \in DOMAIN roots,
                          err |-> r.err, state |-> r.trie.state]
    /\ UNCHANGED <<dbVars, diskdb, cleans, lockVars, roots, collected>>

TrieTryGet ==
    /\ ~panicked
    /\ trie.state \in {"open", "committed"}
    /\ \E key \in TrieKeys :
         LET r == TryGet(trie, Reader, key)
         IN /\ trie' = r.trie
            /\ lastOp' = [op |-> "TryGet", key |-> key, value |-> r.value, err |-> r.err,
                          resolved |-> r.trie # trie]
    /\ UNCHANGED <<dbVars, diskdb, cleans, lockVars, kv, roots, collected>>

TrieTryUpdate ==
    /\ ~panicked
    /\ trie.state = "open"
    /\ \E key \in TrieKeys :
        \* the first key takes every value
        \E value \in IF key = <<0>> THEN 1..MaxValue ELSE {1} :
         LET r == TryUpdate(trie, Reader, key, value)
         IN /\ trie' = r.trie
            /\ kv' = IF r.err = noError THEN MapPut(kv, key, value) ELSE kv
            /\ lastOp' = [op |-> "TryUpdate", err |-> r.err]
    /\ UNCHANGED <<dbVars, diskdb, cleans, lockVars, roots, collected>>

TrieTryDelete ==
    /\ ~panicked
    /\ trie.state = "open"
    /\ \E key \in TrieKeys :
         LET r == TryDelete(trie, Reader, key)
         IN /\ trie' = r.trie
            /\ kv' = IF r.err = noError THEN MapRemove(kv, key) ELSE kv
            /\ lastOp' = [op |-> "TryDelete", err |-> r.err]
    /\ UNCHANGED <<dbVars, diskdb, cleans, lockVars, roots, collected>>

\* StateTrie.TryGet(key)
TrieStateTryGet ==
    /\ ~panicked
    /\ trie.state = "open"
    \* the raw keys: their hashes are keys of TrieKeys
    /\ \E key \in {<<>>, <<0>>} :
         With(StateTrieTryGet(trie, Reader, key), LAMBDA r :
           /\ trie' = r.trie
           /\ lastOp' = [op |-> "StateTryGet", key |-> key, value |-> r.value,
                         err |-> r.err])
    /\ UNCHANGED <<dbVars, diskdb, cleans, lockVars, kv, roots, collected>>

\* StateDB.getStateObject: s.trie.TryGetAccount(addr.Bytes()); a panic ends
\* the program
TrieTryGetAccount ==
    /\ ~panicked
    /\ trie.state = "open"
    /\ \E key \in {<<>>, <<0>>} :
         With(TryGetAccount(trie, Reader, key), LAMBDA r :
           /\ trie' = r.trie
           /\ panicked' = r.panic
           /\ lastOp' = [op |-> "TryGetAccount", key |-> key, account |-> r.account,
                         err |-> r.err,
                         lookup |-> TryGet(trie, Reader, Keccak256(key)).err])
    /\ UNCHANGED <<dirties, oldest, newest, dirtiesSize, childrenSize, diskdb,
                   cleans, lockVars, kv, roots, collected>>

\* trie.Prove(key, fromLevel, proofDb) into an empty proofDb
TrieProve ==
    /\ ~panicked
    /\ trie.state = "open"
    /\ \E key \in TrieKeys, fromLevel \in {0, 1} :
         With(Prove(trie, Reader, key, fromLevel), LAMBDA r :
           lastOp' = [op |-> "Prove", key |-> key, fromLevel |-> fromLevel,
                      err |-> r.err, puts |-> r.puts])
    /\ UNCHANGED <<dbVars, diskdb, cleans, lockVars, trie, kv, roots, collected>>

\* it := NewIterator(trie.NodeIterator(start)); for it.Next() { ... }
TrieIterate ==
    /\ ~panicked
    /\ trie.state = "open"
    \* the start keys: none, stored keys, a key after every key
    /\ \E start \in {<<>>, <<0>>, <<0, 1>>, <<MaxNibble + 1>>} :
         With(NodeIterator(trie, Reader, start), LAMBDA r :
           lastOp' = [op |-> "Iterate", start |-> start, out |-> r.out, err |-> r.err])
    /\ UNCHANGED <<dbVars, diskdb, cleans, lockVars, trie, kv, roots, collected>>

\* trie.Hash()
TrieHash ==
    /\ ~panicked
    /\ trie.state \in {"open", "committed"}
    /\ trie' = [trie EXCEPT !.root = hashRoot(trie).cached]
    /\ lastOp' = [op |-> "Hash", hash |-> Hash(trie)]
    /\ UNCHANGED <<dbVars, diskdb, cleans, lockVars, kv, roots, collected>>

\* root, nodes := trie.Commit(false); triedb.Update(NewWithNodeSet(nodes));
\* the handle is hashed and committed again, not changed
TrieCommit ==
    /\ ~panicked
    /\ trie.state \in {"open", "committed"}
    /\ ~collected
    /\ LET c == Commit(trie)
       IN /\ c.root \in DOMAIN roots \/ Cardinality(DOMAIN roots) < MaxCommits
          /\ roots' = MapPut(roots, c.root, kv)
          /\ IF c.nodes.nodes = <<>> THEN UNCHANGED dbVars
             ELSE \E r \in Update(DB, NewWithNodeSet(c.nodes)) : SetDB(r.db)
          /\ lastOp' = [op |-> "Commit", root |-> c.root]
          /\ trie' = c.trie
    /\ UNCHANGED <<diskdb, cleans, lockVars, kv, collected>>

\* triedb.Dereference(root)
TrieDereference ==
    /\ ~panicked
    /\ \E root \in (DOMAIN roots) \ {EmptyRootHash} :
         /\ root \in DOMAIN dirties
         /\ \E db \in Dereference(DB, root) : SetDB(db)
    /\ lastOp' = [op |-> "Dereference"]
    /\ collected' = TRUE
    /\ UNCHANGED <<diskdb, cleans, lockVars, trie, kv, roots>>

NextTrie ==
    \/ TrieNew \/ TrieTryGet \/ TrieTryUpdate \/ TrieTryDelete
    \/ TrieCommit \/ TrieProve \/ TrieIterate
    \/ TrieStateTryGet \/ TrieTryGetAccount \/ TrieHash

SpecTrie == Init /\ [][NextTrie]_vars

\* the same caller, who also collects roots; nothing is committed afterwards
NextTrieGC == NextTrie \/ TrieDereference

SpecTrieGC == Init /\ [][NextTrieGC]_vars

(***************************************************************************)
(* C1.  GC correctness.                                                    *)
(***************************************************************************)
\* the nodes a Dereference step removed from the dirty map
removedNodes == (DOMAIN dirties) \ (DOMAIN dirties')

\* the nodes reachable from the dereferenced root and from no root that is
\* still retained after the call
onlyFromRoot ==
    ReachD(dirties, {lastOp'.root} \cap DOMAIN dirties)
        \ ReachD(dirties, Retained(dirties'))

\* C1 as stated: when every ingested trie is anchored, Dereference(r)
\* removes exactly the nodes reachable from r and from no other retained
\* root, so every node reachable from a retained root stays dirty
C1_Original ==
    [][(lastOp'.op = "Dereference" /\ AllAnchored(dirties))
          => removedNodes = onlyFromRoot]_vars

\* C1 amended: the same, when in addition every parent count equals the
\* number of references held by dirty nodes (no node was re-inserted
\* after a parent that had found it in the store only)
C1_GCExact ==
    [][(lastOp'.op = "Dereference" /\ AllAnchored(dirties) /\ CountsExact(dirties))
          => /\ removedNodes = onlyFromRoot
             /\ ReachD(dirties, Retained(dirties')) \subseteq DOMAIN dirties']_vars

\* a Dereference of root 6 from an exact, anchored state removed 6 and its
\* own node 4 and left node 3, shared with the retained root 5, dirty
C1_Witness ==
    /\ lastOp.op = "Dereference" /\ lastOp.root = Hsh(6)
    /\ AllAnchored(lastOp.before) /\ CountsExact(lastOp.before)
    /\ (DOMAIN lastOp.before) \ (DOMAIN dirties) = {Hsh(6), Hsh(4)}
    /\ Hsh(5) \in Retained(dirties)
    /\ {Hsh(3), Hsh(2), Hsh(1)} \subseteq DOMAIN dirties

(***************************************************************************)
(* C2.  Cross-trie linkage.                                                *)
(***************************************************************************)
\* no dirty node of d1 holds a reference (as counted in d) to h
unreferenced(d, d1, h) == \A p \in dirtyNodes(d1) : refCount(d, p, h) = 0

C8_UpdateAtomic ==
    [][(lastOp'.op = "Update" /\ ~panicked') =>
         IF lastOp'.err
         THEN /\ dirties' = dirties
              /\ oldest' = oldest
              /\ newest' = newest
         ELSE /\ lastOp'.set \subseteq DOMAIN dirties'
              /\ \A h \in lastOp'.set :
                   (holdsLeaf(h) /\ leafRoot(h) # EmptyRootHash
                      /\ leafRoot(h) \in DOMAIN dirties')
                     => leafRoot(h) \in DOMAIN dirties'[h].children]_vars

(***************************************************************************)
(* C10.  The zero-hash meta-root is never removed.                         *)
(***************************************************************************)
\* C10 as stated: the dirty map always holds the zero-hash entry, whatever
\* Update, Reference and Dereference calls are made, and
\* Dereference(zero-hash) changes nothing
C10_MetaRootKept ==
    [][/\ ZeroHash \in DOMAIN dirties'
       /\ (lastOp'.op = "Dereference" /\ lastOp'.root = ZeroHash) =>
            UNCHANGED <<dirties, oldest, newest, dirtiesSize, childrenSize>>
      ]_vars

(***************************************************************************)
(* C6.  Lookup order of Node.                                              *)
(***************************************************************************)
\* the store holds bytes for hash under codec
inStore(hash, codec) ==
    /\ Keccak256ToCid(codec, hash) \in DOMAIN diskdb
    /\ diskdb[Keccak256ToCid(codec, hash)] # <<>>

\* C6: a Node(hash, codec) call for a non-zero hash returns the bytes of the
\* first layer that holds the hash, in the order clean cache, dirty map,
\* store under ContentID(codec, hash); with no such layer, or for the zero
\* hash, it returns an error and no bytes, and it never panics
C6_NodeLookup ==
    [][lastOp'.op = "Node" =>
        LET hash == lastOp'.hash
            codec == lastOp'.codec
        IN /\ ~panicked'
           /\ IF hash = ZeroHash
              THEN lastOp'.err = "not found" /\ lastOp'.enc = <<>>
              ELSE IF cleans.on /\ hash \in DOMAIN cleans.m
              THEN lastOp'.err = "none" /\ lastOp'.enc = cleans.m[hash]
              ELSE IF hash \in DOMAIN dirties
              THEN lastOp'.err = "none" /\ lastOp'.enc = dirties[hash].node.blob
              ELSE IF inStore(hash, codec)
              THEN lastOp'.err = "none"
                   /\ lastOp'.enc = diskdb[Keccak256ToCid(codec, hash)]
              ELSE lastOp'.err # "none" /\ lastOp'.enc = <<>>]_vars

\* Node returned the bytes of the clean cache for a hash that the dirty map
\* holds with other bytes
C6_Witness ==
    /\ lastOp.op = "Node" /\ lastOp.err = "none"
    /\ lastOp.hash = Hsh(3)
    /\ lastOp.hash \in DOMAIN dirties
    /\ cleans.on /\ lastOp.hash \in DOMAIN cleans.m
    /\ lastOp.enc = cleans.m[lastOp.hash]
    /\ lastOp.enc # dirties[lastOp.hash].node.blob

(***************************************************************************)
(* C7.  Mutual exclusion on the dirty map and the flush list.              *)
(***************************************************************************)
\* goroutine t is inside the body of Update, Reference or Dereference
inBody(t) == th[t].at \in {"body", "Unlock"}

\* goroutine t is inside the dirty lookup of Node, Nodes or Size
reading(t) == th[t].at \in {"read", "RUnlock"}

\* a set of hashes that no partial ingestion and no partial cascade leaves:
\* with a node it holds the nodes the node refers to (a cascade deletes a
\* node after its children) and a node that refers to it unless it is a
\* root (Update inserts children first)
wholeTries(obs) ==
    \A h \in obs :
        /\ refsOf(h) \subseteq obs
        /\ isRoot(h) \/ \E p \in obs : h \in refsOf(p)

collecting(t) == th[t].op = "Dereference" /\ lock.w = t

valueIn(m, key) == IF key \in DOMAIN m THEN m[key] ELSE nilValue

\* the handle was opened at a committed root that is not the empty root
reopened == trie.state = "open" /\ trie.base \in (DOMAIN roots) \ {EmptyRootHash}

\* C3: after Commit and Database.Update, New at the committed root succeeds,
\* and the trie it returns answers every key with the last value set for it
\* and with nil for a key that was never set or was deleted; every TryGet on
\* a handle returns the value last set through the handle or its ancestors
C3_RoundTrip ==
    /\ (lastOp.op = "New" /\ lastOp.known) =>
          /\ lastOp.err = noError /\ trie.state = "open"
          /\ \A key \in TrieKeys :
                LET r == TryGet(trie, Reader, key)
                IN r.err = noError /\ r.value = valueIn(roots[trie.base], key)
    /\ lastOp.op = "TryGet" =>
          lastOp.err = noError /\ lastOp.value = valueIn(kv, lastOp.key)

\* a TryGet on a trie reopened at a root under which a branch lies has read
\* the second value set for its key, and another key was never set
C3_Witness ==
    /\ reopened
    /\ kv = roots[trie.base]
    /\ lastOp.op = "TryGet" /\ lastOp.key = <<0>> /\ lastOp.value = MaxValue
    /\ Cardinality(DOMAIN kv) = 2

(***************************************************************************)
(* C4.  The root hash depends on the pairs only.                           *)
(***************************************************************************)
\* the trie that inserting the pairs of m into t gives
RECURSIVE rebuilt(_, _)
rebuilt(t, m) ==
    IF DOMAIN m = {} THEN t
    ELSE LET key == CHOOSE k \in DOMAIN m : TRUE
         IN rebuilt(TryUpdate(t, Reader, key, m[key]).trie, MapRemove(m, key))

emptyTrie == New(ZeroHash, EmptyRootHash, Reader, MEthStateTrie).trie

\* C4: whatever sequence of updates and deletes, over whatever committed
\* root, led to the pairs a handle holds, its root hash is the root hash of
\* the trie built by inserting those pairs into an empty trie
C4_OrderIndependence ==
    trie.state = "open" => Hash(trie) = Hash(rebuilt(emptyTrie, kv))

\* a delete on a reopened trie has taken a key out of a branch of two, the
\* branch has collapsed into a shortNode
C4_Witness ==
    /\ reopened
    /\ lastOp.op = "TryDelete" /\ lastOp.err = noError
    /\ Cardinality(DOMAIN roots[trie.base]) = 2
    /\ Cardinality(DOMAIN kv) = 1
    /\ \A key \in DOMAIN kv : valueIn(roots[trie.base], key) = kv[key]
    /\ trie.root.t = "short" /\ trie.root.dirty /\ trie.root.Val.t = "value"

(***************************************************************************)
(* C5.  The error of an operation that meets a missing node.               *)
(***************************************************************************)
\* C5: an error of New, TryGet, TryUpdate or TryDelete is a MissingNodeError
C5_MissingNodeError ==
    (lastOp.op \in {"New", "TryGet", "TryUpdate", "TryDelete"} /\ lastOp.err # noError)
        => lastOp.err.kind = "MissingNodeError"

C18_NoPartialProof ==
    (lastOp.op = "Prove" /\ lastOp.err # noError) => lastOp.puts = EmptyMap

\* a Prove that failed on a collected node below the resolved root
C18_Witness ==
    /\ lastOp.op = "Prove" /\ lastOp.err # noError
    /\ trie.root.t \in {"short", "full"}
    /\ collected

(***************************************************************************)
(* C12.  Full iteration.                                                   *)
(***************************************************************************)
\* the keys an iteration yielded, in order
yieldedKeys == [i \in 1..Len(lastOp.out) |-> lastOp.out[i].Key]

\* the iteration yielded exactly the keys of S, each once and with its
\* stored value
yields(S) ==
    /\ Len(lastOp.out) = Cardinality(S)
    /\ {lastOp.out[i].Key : i \in 1..Len(lastOp.out)} = S
    /\ \A i \in 1..Len(lastOp.out) : lastOp.out[i].Value = kv[lastOp.out[i].Key]

fullIteration == lastOp.op = "Iterate" /\ lastOp.start = <<>> /\ lastOp.err = noError

\* C12 as stated: an iteration from the empty start key yields every stored
\* key once with its value, in ascending order of the keys as byte
\* strings, and an empty trie yields nothing
C12_Original ==
    fullIteration =>
        /\ yields(DOMAIN kv)
        /\ \A i, j \in 1..Len(lastOp.out) :
              i < j => bytesLess(yieldedKeys[i], yieldedKeys[j])

\* C12 amended: an iteration from the empty start key yields every stored
\* key once with its value, in ascending order of the paths of the keys
\* (the nibbles followed by the terminator, so a key comes after every
\* stored key that extends it), and an empty trie yields nothing
C12_FullIteration ==
    fullIteration =>
        /\ yields(DOMAIN kv)
        /\ \A i, j \in 1..Len(lastOp.out) :
              i < j => bytesLess(keybytesToHex(yieldedKeys[i]),
                                 keybytesToHex(yieldedKeys[j]))

\* a full iteration of a reopened trie of three keys, one a prefix of
\* another
C12_Witness ==
    /\ reopened /\ fullIteration
    /\ yieldedKeys = <<<<0, 1>>, <<0>>, <<1>>>>

(***************************************************************************)
(* C13.  Iterator seek.                                                    *)
(***************************************************************************)
seekIteration == lastOp.op = "Iterate" /\ lastOp.err = noError

\* C13 as stated: an iteration from start key s yields exactly the stored
\* keys that are not smaller than s as byte strings, and begins with s
\* when s is stored
C13_Original ==
    seekIteration =>
        /\ yields({key \in DOMAIN kv : ~bytesLess(key, lastOp.start)})
        /\ lastOp.start \in DOMAIN kv => yieldedKeys[1] = lastOp.start

\* C13 amended: an iteration from start key s yields, in iteration order,
\* exactly the stored keys whose path is not before the nibbles of s: s
\* itself when it is stored, the stored keys that are a prefix of s, and
\* nothing when the nibbles of s are after every stored path
C13_Seek ==
    seekIteration =>
        /\ yields({key \in DOMAIN kv :
                     ~bytesLess(keybytesToHex(key), seekPath(lastOp.start))})
        /\ \A i, j \in 1..Len(lastOp.out) :
              i < j => bytesLess(keybytesToHex(yieldedKeys[i]),
                                 keybytesToHex(yieldedKeys[j]))
        /\ lastOp.start \in DOMAIN kv =>
              \E i \in 1..Len(lastOp.out) : yieldedKeys[i] = lastOp.start

\* a seek to a stored key that has a stored prefix, in a trie of three keys
C13_Witness ==
    /\ reopened /\ seekIteration
    /\ lastOp.start = <<0, 1>>
    /\ yieldedKeys = <<<<0, 1>>, <<0>>, <<1>>>>

emptyReader ==
    [db |-> NewDatabaseWithConfig, cl |-> [on |-> FALSE, m |-> EmptyMap],
     disk |-> EmptyMap]

\* C15: a trie opened at the zero hash or at the empty root is opened
\* without a lookup in the database (over a database that holds nothing
\* New gives the same trie), it holds no key and its Hash is the empty
\* root; and whenever every key that was inserted has been deleted again,
\* Hash is the empty root
C15_EmptyRoot ==
    /\ (lastOp.op = "New" /\ lastOp.root \in {ZeroHash, EmptyRootHash}) =>
          /\ lastOp.err = noError /\ trie.state = "open"
          /\ New(ZeroHash, lastOp.root, emptyReader, MEthStateTrie)
                = [trie |-> trie, err |-> noError]
          /\ Hash(trie) = EmptyRootHash
          /\ \A key \in TrieKeys :
                TryGet(trie, Reader, key) = [trie |-> trie, value |-> nilValue,
                                             err |-> noError]
    /\ (trie.state = "open" /\ kv = EmptyMap) => Hash(trie) = EmptyRootHash

\* a trie reopened at a root with two keys, after both were deleted
C15_Witness ==
    /\ reopened /\ Cardinality(DOMAIN roots[trie.base]) = 2
    /\ kv = EmptyMap
    /\ lastOp.op = "TryDelete" /\ lastOp.err = noError

(***************************************************************************)
(* C16.  The secure trie hashes its keys.                                  *)
(***************************************************************************)
\* C16: StateTrie.TryGet(k) returns the value and the error that
\* Trie.TryGet(keccak256(k)) returns: the value stored under the hash of
\* k, never the value stored under k itself
C16_SecureKey ==
    lastOp.op = "StateTryGet" =>
        /\ \E r \in {TryGet(trie, Reader, Keccak256(lastOp.key))} :
              lastOp.value = r.value /\ lastOp.err = r.err
        /\ lastOp.err = noError => lastOp.value = valueIn(kv, Keccak256(lastOp.key))

\* the key 00 read through the secure trie gave the value of its hash, not
\* the different value stored under 00 itself
C16_Witness ==
    /\ lastOp.op = "StateTryGet" /\ lastOp.key = <<0>> /\ lastOp.err = noError
    /\ <<0>> \in DOMAIN kv /\ Keccak256(<<0>>) \in DOMAIN kv
    /\ kv[<<0>>] # kv[Keccak256(<<0>>)]
    /\ lastOp.value = kv[Keccak256(<<0>>)]

(***************************************************************************)
(* C17.  TryGetAccount and lookup failures.                                *)
(***************************************************************************)
\* C17: when the lookup of the key fails, TryGetAccount returns the error
\* of the lookup and the program goes on; when the key is absent it
\* returns no account and no error
C17_SurfacesErrors ==
    lastOp.op = "TryGetAccount" =>
        /\ ~panicked
        /\ lastOp.lookup # noError => lastOp.err = lastOp.lookup
        /\ (lastOp.lookup = noError /\ Keccak256(lastOp.key) \notin DOMAIN kv) =>
              lastOp.account = nilValue /\ lastOp.err = noError

(***************************************************************************)
(* C19.  Hash is pure and stable.                                          *)
(***************************************************************************)
\* the value and the error of every TryGet on the handle t
getResults(t) ==
    [key \in TrieKeys |-> <<TryGet(t, Reader, key).value, TryGet(t, Reader, key).err>>]

ingesting ==
    /\ th[1].op = "Update" /\ th[1].at = "body"
    /\ th[1].items # <<>>
    /\ th'[1] # th[1]

\* the items of the call that are still to come after this step
itemsLeft == {th[1].items[i] : i \in 2..Len(th[1].items)}

storageInsert(item) ==
    item.k = "insert" /\ ~isDeleted(item.n) /\ nodeOwner(item.n.hash) # ZeroHash

\* C20: within one Update a node that is not deleted is in the dirty map
\* after its step; when a node of the account set is inserted no node of a
\* storage set is still to be inserted; the step of a deleted entry leaves
\* the dirty map as it is; and when a storage root is linked no insertion
\* is still to come
C20_IngestionOrder ==
    [][ingesting =>
         \A item \in {Head(th[1].items)} :
            /\ (item.k = "insert" /\ ~isDeleted(item.n)) =>
                  item.n.hash \in DOMAIN dirties'
            /\ (item.k = "insert" /\ nodeOwner(item.n.hash) = ZeroHash) =>
                  \A later \in itemsLeft : ~storageInsert(later)
            /\ (item.k = "insert" /\ isDeleted(item.n)) => UNCHANGED dbVars
            /\ item.k = "leaf" => \A later \in itemsLeft : later.k = "leaf"]_vars

\* the first Update has inserted the nodes of the storage set and is at
\* the deleted entry of the account set, whose nodes are not yet inserted
C20_Witness ==
    /\ calls = 1
    /\ th[1].op = "Update" /\ th[1].at = "body" /\ th[1].items # <<>>
    /\ Head(th[1].items).k = "insert" /\ isDeleted(Head(th[1].items).n)
    /\ {Hsh(1), Hsh(2)} \subseteq DOMAIN dirties
    /\ DOMAIN dirties = {ZeroHash, Hsh(1), Hsh(2)}

(***************************************************************************)
(* C21.  Dereference leaves shared nodes untouched.                        *)
(***************************************************************************)
\* the flush list of dirty map d from h on, at most n nodes of it
RECURSIVE flushWalk(_, _, _)
flushWalk(d, h, n) ==
    IF h = ZeroHash \/ h \notin DOMAIN d \/ n = 0 THEN <<>>
    ELSE <<h>> \o flushWalk(d, d[h].flushNext, n - 1)

\* the nodes of d in the order of the flush list that starts at o
flushOrder(d, o) == flushWalk(d, o, Cardinality(DOMAIN d))

\* the nodes of S keep their membership, their child maps and their order
\* in the flush list over the step
untouched(S) ==
    /\ \A h \in S : h \in DOMAIN dirties' /\ dirties'[h].children = dirties[h].children
    /\ SelectSeq(flushOrder(dirties', oldest'), LAMBDA h : h \in S)
          = SelectSeq(flushOrder(dirties, oldest), LAMBDA h : h \in S)

\* C21 as stated: a Dereference leaves every node that a root retained
\* after the call reaches in the dirty map, with its child map and its
\* place in the flush list
C21_Original ==
    [][lastOp'.op = "Dereference" =>
          untouched(ReachD(dirties, Retained(dirties')))]_vars

\* C21 amended: when every parent count equals the number of references
\* dirty nodes hold, a Dereference removes only nodes that no root retained
\* after the call reaches; whatever the counts, a node that stays dirty
\* keeps its child map and its place in the flush list, and so does every
\* node below a node whose count is still positive after the decrement
C21_SharedUntouched ==
    [][lastOp'.op = "Dereference" =>
          /\ CountsExact(dirties) => untouched(ReachD(dirties, Retained(dirties')))
          /\ untouched(dirtyNodes(dirties'))
          /\ CountsExact(dirties) =>
                \A h \in dirtyNodes(dirties') :
                   ReachD(dirties, {h}) \subseteq DOMAIN dirties']_vars

\* a Dereference removed a root and left a node it shares with a retained
\* root, with a lower count
C21_Witness ==
    /\ lastOp.op = "Dereference"
    /\ lastOp.root \notin DOMAIN dirties
    /\ CountsExact(lastOp.before)
    /\ \E h \in dirtyNodes(dirties) :
          /\ h \in ReachD(lastOp.before, {lastOp.root})
          /\ h \in ReachD(dirties, Retained(dirties))
          /\ dirties[h].parents < lastOp.before[h].parents

(***************************************************************************)
(* The reference counts under Reference and Dereference calls on any node  *)
(* of the universe, anchored or not, between the Updates of commits.       *)
(***************************************************************************)
\* db.Reference(h, common.Hash{}) for an account-trie root and for a node
\* below it
AnyReference ==
    /\ ~panicked
    /\ \E h \in {Hsh(3), Hsh(5)} :
         /\ metaRefs(dirties, h) < MaxRefs
         /\ SetDB(reference(DB, h, ZeroHash))
         /\ lastOp' = [op |-> "Reference", child |-> h, parent |-> ZeroHash,
                       before |-> dirties]
    /\ UNCHANGED <<diskdb, auxVars>>

\* db.Dereference(h) for the same hashes, referenced by the meta-root or not
AnyDereference ==
    /\ ~panicked
    /\ \E h \in {Hsh(3), Hsh(5)} :
         /\ \E db \in Dereference(DB, h) : SetDB(db)
         /\ lastOp' = [op |-> "Dereference", root |-> h, before |-> dirties]
    /\ UNCHANGED <<diskdb, auxVars>>

NextRefs == DoUpdate \/ AnyReference \/ AnyDereference

SpecRefs == Init /\ [][NextRefs]_vars

(***************************************************************************)
(* C25.  A root referenced k times is removed by the k-th Dereference.     *)
(***************************************************************************)
\* a dirty node other than the meta-root holds a reference to h
otherParent(d, h) == \E p \in dirtyNodes(d) : refCount(d, p, h) > 0

\* the step is the Dereference(h) that takes the last meta-root reference
lastDeref(h) ==
    /\ lastOp'.op = "Dereference" /\ lastOp'.root = h
    /\ metaRefs(dirties, h) = 1

C29_SurplusHarmless ==
    [][\A h \in NodeHashes :
         lastOp'.op = "Dereference" /\ lastOp'.root = h
            /\ h \in DOMAIN dirties /\ metaRefs(dirties, h) = 0
            /\ otherParent(dirties, h)
         => /\ ReachD(dirties, {h}) \subseteq DOMAIN dirties'
            /\ dirties'[h].parents = dirties[h].parents]_vars

(***************************************************************************)
(* Updates with the node sets handed over so far on record, so that a      *)
(* second Update with the same set can be told from a first one.  The      *)
(* store holds nodes that the ingestion pipeline persisted.                *)
(***************************************************************************)
\* the number of different node sets handed over in one run
MaxSets == 2

\* the node sets that Update was called with before the last call returned
ingestedSets(l) == IF "ingested" \in DOMAIN l THEN l.ingested ELSE {}

\* db.Update(nodes) with the NodeSet of a Commit
AgainUpdate ==
    /\ ~panicked
    /\ \E S \in {T \in SUBSET NodeHashes : CommitSet(T)} :
         /\ Cardinality(ingestedSets(lastOp) \cup {S}) <= MaxSets
         /\ \E r \in Update(DB, MergedNodeSetOf(S, FALSE, {})) :
              /\ SetDB(r.db)
              /\ lastOp' = [op |-> "Update", err |-> r.err, set |-> S,
                            before |-> dirties,
                            again |-> S \in ingestedSets(lastOp),
                            ingested |-> ingestedSets(lastOp) \cup {S}]
    /\ UNCHANGED <<diskdb, auxVars>>

\* db.Dereference(root) of a root that no dirty node references
AgainDereference ==
    /\ ~panicked
    /\ \E root \in Roots :
         /\ root \in DOMAIN dirties
         /\ \E db \in Dereference(DB, root) : SetDB(db)
         /\ lastOp' = [op |-> "Dereference", root |-> root,
                       ingested |-> ingestedSets(lastOp)]
    /\ UNCHANGED <<diskdb, auxVars>>

\* the ingestion pipeline writes a storage root to the store
AgainStoreWrite ==
    /\ ~panicked
    /\ \E h \in {Hsh(2)} :
         /\ Keccak256ToCid(nodeCodec(h), h) \notin DOMAIN diskdb
         /\ diskdb' = MapPut(diskdb, Keccak256ToCid(nodeCodec(h), h),
                             simplifyNode(h).blob)
    /\ lastOp' = [op |-> "StoreWrite", ingested |-> ingestedSets(lastOp)]
    /\ UNCHANGED <<dbVars, auxVars>>

NextAgain == AgainUpdate \/ AgainDereference \/ AgainStoreWrite

SpecAgain == Init /\ [][NextAgain]_vars

(***************************************************************************)
(* C26.  Re-ingestion is idempotent.                                       *)
(***************************************************************************)
\* the step is an Update with a node set that was handed over before and
\* whose nodes are all dirty
reingests ==
    /\ lastOp'.op = "Update"
    /\ lastOp'.set \in ingestedSets(lastOp)
    /\ lastOp'.set \subseteq DOMAIN dirties

\* C26 as stated: a second Update with a node set that was ingested before
\* and whose nodes are all still dirty leaves the dirty map with its parent
\* counts and child maps, the flush list and the size counters unchanged
C26_Original == [][reingests => UNCHANGED dbVars]_vars

\* every account leaf of S has its link to the storage root, if that root
\* is dirty
linked(d, S) ==
    \A h \in S : holdsLeaf(h) /\ leafRoot(h) \in dirtyNodes(d)
                    => leafRoot(h) \in DOMAIN d[h].children

\* C26, amended: such an Update leaves all of this unchanged when every
\* storage root that a leaf of the set refers to and that is dirty now is
\* already linked to the node of that leaf
C26_Idempotent ==
    [][reingests /\ linked(dirties, lastOp'.set) => UNCHANGED dbVars]_vars

\* a second Update with a set that holds a linked account leaf has returned
C26_Witness ==
    /\ lastOp.op = "Update" /\ lastOp.again
    /\ lastOp.set \subseteq DOMAIN lastOp.before
    /\ linked(lastOp.before, lastOp.set)
    /\ \E h \in lastOp.set : DOMAIN lastOp.before[h].children # {}
    /\ dirties = lastOp.before

(***************************************************************************)
(* C27.  The flush list is well-formed.                                    *)
(***************************************************************************)
\* the flush list of dirty map d with the ends o and n: the walk from o
\* visits every dirty node once and ends at n, flushPrev is the inverse of
\* flushNext, the ends have no neighbour outside, no link is to a removed
\* hash
flushListOK(d, o, n) ==
    LET order == flushOrder(d, o)
    IN dirtyNodes(d) # {} =>
         /\ Len(order) = Cardinality(dirtyNodes(d))
         /\ {order[i] : i \in DOMAIN order} = dirtyNodes(d)
         /\ order[Len(order)] = n
         /\ \A i \in 2..Len(order) : d[order[i]].flushPrev = order[i - 1]
         /\ d[o].flushPrev = ZeroHash
         /\ d[n].flushNext = ZeroHash
         /\ \A h \in dirtyNodes(d) :
               {d[h].flushPrev, d[h].flushNext} \subseteq DOMAIN d

\* the nodes that stay keep their order and the new nodes come after them
orderKept ==
    LET old == flushOrder(dirties, oldest)
        new == flushOrder(dirties', oldest')
        stay == SelectSeq(old, LAMBDA h : h \in DOMAIN dirties')
    IN SubSeq(new, 1, Len(stay)) = stay

\* C27: whenever a node other than the meta-root is dirty, the flush list
\* from oldest visits exactly the dirty nodes once each, in insertion
\* order, and ends at newest; flushPrev is the inverse of flushNext; oldest
\* has no predecessor and newest no successor; no link is to a removed hash
C27_FlushList ==
    /\ [](~panicked => flushListOK(dirties, oldest, newest))
    /\ [][~panicked' => orderKept]_vars

(***************************************************************************)
(* The database with nodes of every size that fits memoryNode.size, the    *)
(* largest sizes among them.                                               *)
(***************************************************************************)
\* the node sizes: the largest to which the hash length can be added
\* within 16 bits, the next one, and the largest of all
Sizes == {Uint16 - HashLength - 1, Uint16 - HashLength, Uint16 - 1}

\* the MergedNodeSet with every node of size z
withSize(nodes, z) ==
    [sets |-> [o \in DOMAIN nodes.sets |->
        LET ns == nodes.sets[o].nodes
        IN [nodes |-> [i \in DOMAIN ns |->
                         [hash |-> ns[i].hash, size |-> z, node |-> ns[i].node]],
            leaves |-> nodes.sets[o].leaves]]]

\* db.Update(nodes) with the NodeSet of a Commit that created a whole trie,
\* all nodes of size z; a run is followed until the size counter has gone
\* below zero
SizedUpdate ==
    /\ ~panicked
    /\ dirtiesSize >= 0
    /\ \E root \in Roots, z \in Sizes :
         \E r \in Update(DB, withSize(MergedNodeSetOf(TrieOf(root) \cap NodeHashes,
                                                      FALSE, {}), z)) :
              /\ SetDB(r.db)
              /\ lastOp' = [op |-> "Update", err |-> r.err, size |-> z]
    /\ UNCHANGED <<diskdb, auxVars>>

NextSize == SizedUpdate \/ DoAnchor \/ DoDereference

SpecSize == Init /\ [][NextSize]_vars

(***************************************************************************)
(* C28.  Size accounting.                                                  *)
(***************************************************************************)
\* the sum of the hash length plus the stored size over the nodes S of d
RECURSIVE sumSizes(_, _)
sumSizes(d, S) ==
    IF S = {} THEN 0
    ELSE LET h == CHOOSE x \in S : TRUE
         IN HashLength + d[h].size + sumSizes(d, S \ {h})

\* C28: dirtiesSize is the sum, over the dirty nodes other than the
\* meta-root, of 32 plus the stored size of the node, whatever sizes the
\* Updates passed; it is never negative, and zero when no node is dirty
C28_SizeAccounting ==
    ~panicked =>
       /\ dirtiesSize = sumSizes(dirties, dirtyNodes(dirties))
       /\ dirtiesSize >= 0
       /\ dirtyNodes(dirties) = {} => dirtiesSize = 0

(***************************************************************************)
(* C30.  Node does not cross codecs.                                       *)
(***************************************************************************)
\* C30: a Node(h, c2) call for a hash that is not dirty and that the store
\* has never held under the content identifier of (c2, h), only under that
\* of another codec, returns an error, however many Node calls for h under
\* the other codec came before
C30_CodecIsolation ==
    [][\A c1, c2 \in {MEthStateTrie, MEthStorageTrie} :
         /\ lastOp'.op = "Node" /\ lastOp'.hash # ZeroHash
         /\ lastOp'.codec = c2 /\ c1 # c2
         /\ lastOp'.hash \notin DOMAIN dirties
         /\ Keccak256ToCid(c1, lastOp'.hash) \in DOMAIN diskdb
         /\ Keccak256ToCid(c2, lastOp'.hash) \notin DOMAIN diskdb
         => lastOp'.err # "none"]_vars

(***************************************************************************)
(* C24.  TryGet does not change what the trie contains.                    *)
(***************************************************************************)
\* node new is node old with hash placeholders replaced by the nodes that
\* the reader resolves them to
RECURSIVE refinesNode(_, _, _, _)
refinesNode(t, rd, new, old) ==
    IF new = old THEN TRUE
    ELSE IF old.t = "hash"
    THEN With(resolveHash(t, rd, old.h, <<>>), LAMBDA c :
           c.err = noError /\ refinesNode(t, rd, new, c.node))
    ELSE IF old.t = "short" /\ new.t = "short"
    THEN /\ [new EXCEPT !.Val = old.Val] = old
         /\ refinesNode(t, rd, new.Val, old.Val)
    ELSE IF old.t = "full" /\ new.t = "full"
    THEN /\ [new EXCEPT !.Children = old.Children] = old
         /\ \A i \in DOMAIN old.Children :
               refinesNode(t, rd, new.Children[i], old.Children[i])
    ELSE FALSE

\* C24: a TryGet leaves the root hash of the trie and the result of every
\* lookup as they were; when it succeeds the handle differs at most in its
\* root, where hash placeholders are replaced by the nodes they resolve to;
\* when it fails the handle is exactly as before and no value is returned
C24_TryGetFrame ==
    [][lastOp'.op = "TryGet" =>
         /\ Hash(trie') = Hash(trie)
         /\ getResults(trie') = getResults(trie)
         /\ lastOp'.err = noError =>
               /\ [trie' EXCEPT !.root = trie.root] = trie
               /\ refinesNode(trie, Reader, trie'.root, trie.root)
         /\ lastOp'.err # noError =>
               /\ trie' = trie
               /\ lastOp'.value = nilValue]_vars

\* a TryGet has found a value below a hash placeholder and put the node it
\* resolved into the root
C24_Witness ==
    /\ lastOp.op = "TryGet" /\ lastOp.err = noError
    /\ lastOp.value # nilValue
    /\ lastOp.resolved

(***************************************************************************)
(* Keccak256ToCid on its own: one call with a codec and a hash drawn from  *)
(* the codecs of the tries and of contract code and from the byte strings  *)
(* of up to MaxHashLen bytes, bytes with the high bit set among them.      *)
(***************************************************************************)
MaxHashLen == 3

CidCodecs == {MEthStateTrie, MEthStorageTrie, RawBinary}

CidHashes == UNION {[1..n -> {0, 1, 152}] : n \in 0..MaxHashLen}

InitCid ==
    /\ dirties = NewDatabaseWithConfig.dirties
    /\ oldest = NewDatabaseWithConfig.oldest
    /\ newest = NewDatabaseWithConfig.newest
    /\ dirtiesSize = NewDatabaseWithConfig.dirtiesSize
    /\ childrenSize = NewDatabaseWithConfig.childrenSize
    /\ panicked = NewDatabaseWithConfig.panic
    /\ diskdb = EmptyMap
    /\ cleans = [on |-> FALSE, m |-> EmptyMap]
    /\ InitLock
    /\ InitTrie
    /\ lastOp \in {[op |-> "input", codec |-> c, hash |-> h, cid |-> <<>>] :
                     c \in CidCodecs, h \in CidHashes}

\* internal.Keccak256ToCid(codec, h)
CidCall ==
    /\ lastOp.op = "input"
    /\ lastOp' = [lastOp EXCEPT !.op = "Keccak256ToCid",
                                !.cid = Keccak256ToCid(lastOp.codec, lastOp.hash)]
    /\ UNCHANGED <<dbVars, diskdb, auxVars>>

SpecCid == InitCid /\ [][CidCall]_vars

(***************************************************************************)
(* C22.  Content identifiers are injective in the codec and the hash.      *)
(***************************************************************************)
\* C22: the identifier a call returned is what every call with the same
\* codec and hash returns, and no call with another codec or another hash
\* returns it; the account-trie, storage-trie and raw-binary identifiers of
\* one hash are three different store keys
C22_Injective ==
    lastOp.op = "Keccak256ToCid" =>
       /\ \A c \in CidCodecs, h \in CidHashes :
             Keccak256ToCid(c, h) = lastOp.cid <=> c = lastOp.codec /\ h = lastOp.hash
       /\ Cardinality({Keccak256ToCid(c, lastOp.hash) : c \in CidCodecs}) = 3

\* the identifier of a hash under the storage-trie codec, whose varint
\* takes two bytes, has been computed for a hash that begins with the
\* first of these bytes
C22_Witness ==
    /\ lastOp.op = "Keccak256ToCid"
    /\ lastOp.codec = MEthStorageTrie
    /\ Len(lastOp.hash) = MaxHashLen /\ lastOp.hash[1] = 152
    /\ lastOp.cid = <<1, 152, 1, KECCAK_256, MaxHashLen>> \o lastOp.hash

(***************************************************************************)
(* The direct-by-leaf lookup of a storage slot.  The database is the three *)
(* tables the query reads: eth.header_cids, eth.storage_cids and           *)
(* eth.state_cids.  Every height has the canonical block <<n, 0>> and a    *)
(* side block <<n, 1>>; the value a block writes is 2n for the canonical   *)
(* block of height n and 2n + 1 for the side block.                        *)
(***************************************************************************)
MaxHeight == 2

AccountLeafKey == <<7>>

StorageLeafKey == <<8>>

\* the rows of eth.header_cids
header_cids ==
    {[block_hash |-> <<n, f>>, block_number |-> n] : n \in 1..MaxHeight, f \in {0, 1}}

\* the function canonical_header_hash of the database
canonical_header_hash(n) == <<n, 0>>

\* the rows of eth.storage_cids a block can hold for the slot: none, a
\* value, or a removal; a side block holds none or a value
storageRows(n, f) ==
    LET row(val, removed) ==
          [header_id |-> <<n, f>>, block_number |-> n,
           state_leaf_key |-> AccountLeafKey, storage_leaf_key |-> StorageLeafKey,
           val |-> val, removed |-> removed]
    IN {{}, {row(2 * n + f, FALSE)}} \cup (IF f = 0 THEN {{row(nilValue, TRUE)}} ELSE {})

\* the rows of eth.state_cids a canonical block can hold for the account:
\* none, an update, or a removal
stateRows(n) ==
    {{}} \cup {{[header_id |-> <<n, 0>>, block_number |-> n,
                 state_leaf_key |-> AccountLeafKey, removed |-> r]} : r \in BOOLEAN}

\* the databases: every choice of rows for every block, and a row of
\* another slot of the account in the first canonical block
SqlDatabases ==
    {[headers |-> header_cids,
      storage |-> UNION {st[b] : b \in DOMAIN st}
                    \cup {[header_id |-> <<1, 0>>, block_number |-> 1,
                           state_leaf_key |-> AccountLeafKey,
                           storage_leaf_key |-> <<9>>,
                           val |-> 1, removed |-> FALSE]},
      state |-> UNION {ac[n] : n \in DOMAIN ac}] :
        st \in {g \in [(1..MaxHeight) \X {0, 1} ->
                         UNION {storageRows(n, f) : n \in 1..MaxHeight, f \in {0, 1}}] :
                   \A b \in DOMAIN g : g[b] \in storageRows(b[1], b[2])},
        ac \in {g \in [1..MaxHeight -> UNION {stateRows(n) : n \in 1..MaxHeight}] :
                   \A n \in DOMAIN g : g[n] \in stateRows(n)}}

\* the row of R with the highest block number (ORDER BY ... DESC LIMIT 1)
latestRow(R) == CHOOSE r \in R : \A q \in R : q.block_number <= r.block_number

\* the block number of the header with hash blockHash; 0 when there is none
\* (the subquery is NULL and no row passes the comparison)
numberOf(db, blockHash) ==
    IF \E h \in db.headers : h.block_hash = blockHash
    THEN (CHOOSE h \in db.headers : h.block_hash = blockHash).block_number
    ELSE 0

\* the column state_leaf_removed: the latest row of the account in a
\* canonical block at or below the height is a removal
state_leaf_removed(db, addressHash, height) ==
    LET R == {sc \in db.state :
                /\ sc.state_leaf_key = addressHash
                /\ sc.block_number <= height
                /\ sc.header_id = canonical_header_hash(sc.block_number)}
    IN R # {} /\ latestRow(R).removed

\* the query GetStorageSlot: [rows, val, removed, state_leaf_removed]
GetStorageSlot(db, addressHash, slotHash, blockHash) ==
    LET R == {sc \in db.storage :
                \E hc \in db.headers :
                   /\ sc.header_id = hc.block_hash
                   /\ sc.block_number = hc.block_number
                   /\ sc.state_leaf_key = addressHash
                   /\ sc.storage_leaf_key = slotHash
                   /\ hc.block_number <= numberOf(db, blockHash)
                   /\ hc.block_hash = canonical_header_hash(hc.block_number)}
    IN IF R = {}
       THEN [rows |-> 0, val |-> nilValue, removed |-> FALSE,
             state_leaf_removed |-> FALSE]
       ELSE [rows |-> 1, val |-> latestRow(R).val, removed |-> latestRow(R).removed,
             state_leaf_removed |->
                state_leaf_removed(db, addressHash, numberOf(db, blockHash))]

\* StorageValue that does not look at the removal of the account
StorageValue_SlotOnly(db, addressHash, slotHash, blockHash) ==
    LET res == GetStorageSlot(db, addressHash, slotHash, blockHash)
    IN IF res.rows = 0 THEN [value |-> nilValue, err |-> [kind |-> "no rows"]]
       ELSE IF res.removed THEN [value |-> nilValue, err |-> noError]
       ELSE [value |-> res.val, err |-> noError]

\* stateDatabase.StorageValue: [value, err]
StorageValue(db, addressHash, slotHash, blockHash) ==
    LET res == GetStorageSlot(db, addressHash, slotHash, blockHash)
    IN IF res.rows = 0 THEN [value |-> nilValue, err |-> [kind |-> "no rows"]]
       ELSE IF res.removed \/ res.state_leaf_removed
       THEN [value |-> nilValue, err |-> noError]
       ELSE [value |-> res.val, err |-> noError]

InitSQL ==
    /\ dirties = NewDatabaseWithConfig.dirties
    /\ oldest = NewDatabaseWithConfig.oldest
    /\ newest = NewDatabaseWithConfig.newest
    /\ dirtiesSize = NewDatabaseWithConfig.dirtiesSize
    /\ childrenSize = NewDatabaseWithConfig.childrenSize
    /\ panicked = NewDatabaseWithConfig.panic
    /\ diskdb = EmptyMap
    /\ cleans = [on |-> FALSE, m |-> EmptyMap]
    /\ InitLock
    /\ InitTrie
    /\ lastOp \in {[op |-> "input", db |-> db, blockHash |-> bh,
                    value |-> nilValue, err |-> noError] :
                     db \in SqlDatabases,
                     bh \in {h.block_hash : h \in header_cids} \cup {<<0, 0>>}}

\* db.StorageValue(AccountLeafKey, StorageLeafKey, blockHash)
StorageValueCall ==
    /\ lastOp.op = "input"
    /\ LET r == StorageValue(lastOp.db, AccountLeafKey, StorageLeafKey, lastOp.blockHash)
       IN lastOp' = [lastOp EXCEPT !.op = "StorageValue",
                                   !.value = r.value, !.err = r.err]
    /\ UNCHANGED <<dbVars, diskdb, auxVars>>

SpecSQL == InitSQL /\ [][StorageValueCall]_vars

(***************************************************************************)
(* C23.  The storage value at a block.                                     *)
(***************************************************************************)
\* the entries of the slot in canonical blocks at or below the height of
\* the block asked for
canonicalEntries(l) ==
    {e \in l.db.storage :
        /\ e.state_leaf_key = AccountLeafKey /\ e.storage_leaf_key = StorageLeafKey
        /\ e.header_id[2] = 0
        /\ e.block_number <= l.blockHash[1]}

\* the account was removed in a canonical block at or below the height and
\* has no later entry at or below it
accountRemoved(l) ==
    \E a \in l.db.state :
       /\ a.removed /\ a.block_number <= l.blockHash[1]
       /\ \A b \in l.db.state :
             b.block_number <= l.blockHash[1] => b.block_number <= a.block_number

====
